----------------------------- MODULE TypeState ------------------------------
(***************************************************************************)
(* One GPIO pin and the objects that stand for its state                   *)
(* (samples/type_state): Gpio<Unconfigured>, Gpio<Input> and Gpio<Ouput>.  *)
(*                                                                         *)
(* Configuring the pin through an object spends that object and returns    *)
(* one of the new state.  A spent object answers nullopt to every call.    *)
(* The objects can be copied, the flag _has_been_configured with them, and *)
(* the pin can be opened again; the sample's main does neither.  The driver *)
(* may refuse a configuration, and the code ignores what it says.          *)
(*                                                                         *)
(* Names begin with Pin where one module extends this one and others.      *)
(***************************************************************************)
EXTENDS Naturals, FiniteSets

CONSTANT Handles    \* places that hold a Gpio object

ASSUME HandlesAssumption == IsFiniteSet(Handles)

VARIABLES
    mode,       \* how the pin is configured
    level,      \* the level of the pin
    handle      \* [Handles -> Nothing, or a Gpio object]

VARIABLES       \* history, never read by the objects
    read,       \* mode in which get_state found the pin, since the last
                \* configuration, or "nullopt"
    driven,     \* the same of set_state
    refused,    \* 1 when the driver refused the last configuration
    forked,     \* 1 when an unspent object was copied, or the pin opened
                \* beside one
    grants      \* unspent objects made by opening and copying, less those
                \* that went out of scope

pinVars == <<mode, level, handle, read, driven, refused, forked, grants>>

Modes == {"unconfigured", "input", "output"}
\* The flag, a bool, is the byte that it is.
Gpio == [type : Modes, has_been_configured : {0, 1}]
Nothing == [type |-> "nothing", has_been_configured |-> 1]

PinTypeOK ==
    /\ mode \in Modes
    /\ level \in {"low", "high"}
    /\ handle \in [Handles -> Gpio \cup {Nothing}]
    /\ read \in Modes \cup {"nullopt"}
    /\ driven \in Modes \cup {"nullopt"}
    /\ refused \in 0..1 /\ forked \in 0..1 /\ grants \in Nat

PinInit ==
    /\ mode \in Modes /\ level \in {"low", "high"}
    /\ handle = [h \in Handles |-> Nothing]
    /\ read = "nullopt" /\ driven = "nullopt"
    /\ refused = 0 /\ forked = 0 /\ grants = 0

\* An object through which the pin can still be used.
Unspent(h) == handle[h].has_been_configured = 0

Users == {h \in Handles : Unspent(h)}

\* An object as its constructor leaves it.
Fresh(type) == [type |-> type, has_been_configured |-> 0]

\* What gpio_pin_configure_dt makes of the pin.
Configured(type) ==
    /\ \/ mode' = type /\ refused' = 0
       \/ mode' = mode /\ refused' = 1
    /\ read' = "nullopt" /\ driven' = "nullopt"
-----------------------------------------------------------------------------
\* Gpio<Unconfigured>(spec): the constructor disconnects the pin.
Open(h) ==
    /\ handle[h] = Nothing
    /\ handle' = [handle EXCEPT ![h] = Fresh("unconfigured")]
    /\ Configured("unconfigured")
    /\ forked' = IF Users = {} THEN forked ELSE 1
    /\ grants' = grants + 1
    /\ UNCHANGED level

\* Mutant: a configuration that leaves the old object as usable as it was.
Configure_Unspent(h, g, type) ==
    /\ handle[h].type \in Modes \ {type} /\ Unspent(h) /\ handle[g] = Nothing
    /\ handle' = [handle EXCEPT ![g] = Fresh(type)]
    /\ Configured(type)
    /\ UNCHANGED <<level, forked, grants>>

\* configure_as_input and configure_as_output, of an object of another state:
\* the object is spent, and the constructor of the new one sets up the pin.
Configure(h, g, type) ==
    /\ handle[h].type \in Modes \ {type} /\ Unspent(h) /\ handle[g] = Nothing
    /\ handle' = [handle EXCEPT ![h].has_been_configured = 1, ![g] = Fresh(type)]
    /\ Configured(type)
    /\ UNCHANGED <<level, forked, grants>>

\* Mutant: a read that does not look whether the object is spent.
get_state_Spent(h) ==
    /\ handle[h].type = "input"
    /\ read' = mode
    /\ UNCHANGED <<mode, level, handle, driven, refused, forked, grants>>

\* Gpio<Input>::get_state.
get_state(h) ==
    /\ handle[h].type = "input"
    /\ read' = IF Unspent(h) THEN mode ELSE "nullopt"
    /\ UNCHANGED <<mode, level, handle, driven, refused, forked, grants>>

\* Gpio<Ouput>::set_state.
set_state(h, to) ==
    /\ handle[h].type = "output"
    /\ driven' = IF Unspent(h) THEN mode ELSE "nullopt"
    /\ level' = IF Unspent(h) THEN to ELSE level
    /\ UNCHANGED <<mode, handle, read, refused, forked, grants>>

\* Mutant: a copy constructor that starts with a new flag.
Copy_Fresh(h, g) ==
    /\ handle[h] # Nothing /\ handle[g] = Nothing
    /\ handle' = [handle EXCEPT ![g] = Fresh(handle[h].type)]
    /\ forked' = IF Unspent(h) THEN 1 ELSE forked
    /\ grants' = IF Unspent(h) THEN grants + 1 ELSE grants
    /\ UNCHANGED <<mode, level, read, driven, refused>>

\* The implicit copy constructor copies the flag with the rest.
Copy(h, g) ==
    /\ handle[h] # Nothing /\ handle[g] = Nothing
    /\ handle' = [handle EXCEPT ![g] = handle[h]]
    /\ forked' = IF Unspent(h) THEN 1 ELSE forked
    /\ grants' = IF Unspent(h) THEN grants + 1 ELSE grants
    /\ UNCHANGED <<mode, level, read, driven, refused>>

\* An object goes out of scope; the pin stays as it is.
Drop(h) ==
    /\ handle[h] # Nothing
    /\ handle' = [handle EXCEPT ![h] = Nothing]
    /\ grants' = IF Unspent(h) THEN grants - 1 ELSE grants
    /\ UNCHANGED <<mode, level, read, driven, refused, forked>>

\* Something else drives a pin that the program does not.
Outside ==
    /\ mode # "output"
    /\ level' = IF level = "low" THEN "high" ELSE "low"
    /\ UNCHANGED <<mode, handle, read, driven, refused, forked, grants>>
-----------------------------------------------------------------------------
PinNext ==
    \/ Outside
    \/ \E h \in Handles :
           \/ Open(h) \/ Drop(h) \/ get_state(h)
           \/ \E to \in {"low", "high"} : set_state(h, to)
           \/ \E g \in Handles : Copy(h, g)
           \/ \E g \in Handles, type \in {"input", "output"} : Configure(h, g, type)

PinSpec == PinInit /\ [][PinNext]_pinVars
-----------------------------------------------------------------------------
(* Properties.                                                             *)

\* A configuration hands the right to use the pin on, as a move would, and
\* never makes a second one: the objects that can use it are as many as were
\* opened and copied from one that could, however spent ones are copied and
\* dropped.
RightsHandedOn == Cardinality(Users) = grants

\* What the flag is there for: while nothing has forked the right to use the
\* pin and the driver did the last configuration, the object that can use the
\* pin stands for the state that it is in, and whatever old objects are still
\* around, a level is read only from an input and set only on an output.
UsesFitState ==
    forked = 0 /\ refused = 0 =>
        /\ \A h \in Users : handle[h].type = mode
        /\ read \in {"input", "nullopt"} /\ driven \in {"output", "nullopt"}

\* What the sample's README says the types ensure: the state of the pin is only
\* ever asked for while the pin is an input, as long as the driver does what the
\* objects ask of it.
ReadOnlyAsInput == refused = 0 => read \in {"input", "nullopt"}
=============================================================================
