------------------------------ MODULE LoadCell -------------------------------
(***************************************************************************)
(* The load cell of subsys/load_cell/load_cell.cpp.                        *)
(*                                                                         *)
(* get_weight_grams lets the converter fill _buffer, a member of the       *)
(* object, and uses it after adc_read_dt has returned.  Threads that read  *)
(* the same LoadCell take turns in the driver, which locks itself, but not *)
(* between its return and the use of _buffer.                              *)
(*                                                                         *)
(* The driver is external: it samples the load at the end of a conversion, *)
(* and any call may return an error.  A channel that was not set up gives  *)
(* any value.  What it reads fits in the buffer, whose size _sequence says,*)
(* but the sign may be lost there.                                         *)
(*                                                                         *)
(* Names begin with Cell where one module extends this one and others.     *)
(***************************************************************************)
EXTENDS Integers, Sequences

CONSTANTS
    Threads,    \* that call get_weight_grams
    Loads,      \* what the converter may read, as signed raw values
    Word,       \* values of the uint16_t _buffer: 2^16
    Reference,  \* millivolts of a full scale
    Scale,      \* raw values of a full scale, 2^resolution
    MaxLoads    \* bound: times the load changes

ASSUME ConverterAssumption ==
    /\ Loads \subseteq Int /\ Word \in Nat \ {0}
    /\ \A load \in Loads : load < Word
    /\ Reference \in Nat /\ Scale \in Nat \ {0} /\ MaxLoads \in Nat

VARIABLES
    obj,        \* next call of the constructor; "alive" or "failed" after it
    channel,    \* the converter's channel is set up
    adc,        \* the thread that has the driver's lock, or Nobody
    _buffer,
    pc,         \* [Threads -> where in get_weight_grams the thread is]
    weight      \* [Threads -> what get_weight_grams returned last, or None]

VARIABLES       \* history
    loads,      \* all loads so far
    began       \* [Threads -> how many of them when its last call began]

object == <<obj, channel>>
cellVars == <<object, adc, _buffer, pc, weight, loads, began>>

Nobody == "nobody"
None == -1

CellInit ==
    /\ obj = "is_ready" /\ channel = FALSE
    /\ adc = Nobody /\ _buffer = 0
    /\ pc = [t \in Threads |-> "idle"]
    /\ weight = [t \in Threads |-> None]
    /\ \E load \in Loads : loads = <<load>>
    /\ began = [t \in Threads |-> 0]

\* The load on the cell changes.
ChangeLoad ==
    /\ Len(loads) < MaxLoads
    /\ \E load \in Loads : loads' = Append(loads, load)
    /\ UNCHANGED <<object, adc, _buffer, pc, weight, began>>
-----------------------------------------------------------------------------
(* The constructor.                                                        *)

IsReady ==
    /\ obj = "is_ready"
    /\ obj' \in {"setup", "failed"}
    /\ UNCHANGED <<channel, adc, _buffer, pc, weight, loads, began>>

\* adc_channel_setup_dt, or the throw; then _sequence is pointed at _buffer.
Setup ==
    /\ obj = "setup"
    /\ \/ obj' = "alive" /\ channel' = TRUE
       \/ obj' = "failed" /\ UNCHANGED channel
    /\ UNCHANGED <<adc, _buffer, pc, weight, loads, began>>
-----------------------------------------------------------------------------
(* get_weight_grams.                                                       *)

Call(t) ==
    /\ obj = "alive" /\ pc[t] \in {"idle", "returned"}
    /\ pc' = [pc EXCEPT ![t] = "called"]
    /\ began' = [began EXCEPT ![t] = Len(loads)]
    /\ UNCHANGED <<object, adc, _buffer, weight, loads>>

\* adc_read_dt waits for the driver's lock and starts a conversion,
StartRead(t) ==
    /\ pc[t] = "called" /\ adc = Nobody
    /\ adc' = t
    /\ pc' = [pc EXCEPT ![t] = "sampling"]
    /\ UNCHANGED <<object, _buffer, weight, loads, began>>

\* Mutant: a call that goes on whatever adc_read_dt returned.
EndRead_Ignored(t) ==
    /\ pc[t] = "sampling"
    /\ adc' = Nobody
    /\ _buffer' \in {loads[Len(loads)] % Word, _buffer}
    /\ pc' = [pc EXCEPT ![t] = "read"]
    /\ UNCHANGED <<object, weight, loads, began>>

\* whose end puts the raw value in _buffer, in 16 bits; an error is thrown.
EndRead(t) ==
    /\ pc[t] = "sampling"
    /\ adc' = Nobody
    /\ \/ /\ IF channel THEN _buffer' = loads[Len(loads)] % Word
                        ELSE _buffer' \in 0..(Word - 1)
          /\ pc' = [pc EXCEPT ![t] = "read"]
       \/ /\ pc' = [pc EXCEPT ![t] = "idle"]
          /\ UNCHANGED _buffer
    /\ UNCHANGED <<object, weight, loads, began>>

\* adc_raw_to_millivolts_dt; grams are as many times as many.
Millivolts(value) == (value * Reference) \div Scale

\* The value in _buffer, unsigned, is converted and returned, or an error is
\* thrown: other threads may have filled _buffer in the meantime.
Convert(t) ==
    /\ pc[t] = "read"
    /\ \/ /\ weight' = [weight EXCEPT ![t] = Millivolts(_buffer)]
          /\ pc' = [pc EXCEPT ![t] = "returned"]
       \/ /\ pc' = [pc EXCEPT ![t] = "idle"]
          /\ UNCHANGED weight
    /\ UNCHANGED <<object, adc, _buffer, loads, began>>

get_weight_grams(t) == Call(t) \/ StartRead(t) \/ EndRead(t) \/ Convert(t)

CellNext == ChangeLoad \/ IsReady \/ Setup \/ \E t \in Threads : get_weight_grams(t)

CellSpec == CellInit /\ [][CellNext]_cellVars
-----------------------------------------------------------------------------
(* Properties.                                                             *)

\* The weight that a thread gets was on the cell during its call, although the
\* sample may be another thread's: _buffer is never older than the call that
\* uses it (load_cell.cpp:45-59).  A negative raw value is read as a large
\* positive one: a call during which there was one is left out.
WeightWasThere ==
    \A t \in Threads : pc[t] = "returned" =>
        \E n \in began[t]..Len(loads) :
            weight[t] = Millivolts(loads[n]) \/ loads[n] < 0
=============================================================================
