----------------------------- MODULE ErrorCodes ------------------------------
(***************************************************************************)
(* The error codes of three subsystems and the questions that a program    *)
(* asks of them (samples/error_code).                                      *)
(*                                                                         *)
(* Each subsystem has an enumeration of its own, whose numbers overlap with *)
(* the others'.  Its category maps a number to a SubsystemError; a         *)
(* FailureSource and a Severity are sets of those.  main compares the code  *)
(* that it has with any of them.  A number that came as a raw int may be    *)
(* none of the enumeration: to compare it fails an assertion.              *)
(*                                                                         *)
(* The comparison of std::error_code with std::error_condition is external.*)
(*                                                                         *)
(* Names begin with Code where one module extends this one and others.     *)
(***************************************************************************)
EXTENDS Naturals

CONSTANT MaxRaw     \* bound: raw numbers that a subsystem may return

ASSUME RawAssumption == MaxRaw \in Nat

VARIABLES
    ec,         \* main's std::error_code
    yes,        \* the conditions it was found equal to
    aborted     \* an assertion has failed

codeVars == <<ec, yes, aborted>>
-----------------------------------------------------------------------------
(* The enumerations.                                                       *)

FlightsErrc ==
    [NonexistentLocations |-> 10, DatesInThePast |-> 11, InvertedDates |-> 12,
     NoFlightsFound |-> 20,
     ProtocolViolation |-> 30, ConnectionError |-> 31, ResourceError |-> 32,
     Timeout |-> 33]

Flights2Errc ==
    [ZeroFlightsFound |-> 11, InvalidRequestFormat |-> 12,
     CouldNotConnect |-> 13, DatabaseError |-> 14, NotEnoughMemory |-> 15,
     InternalError |-> 16, NoSuchAirport |-> 17, JourneyInThePast |-> 18,
     DatesNotMonotonic |-> 19]

SeatsErrc ==
    [InvalidRequest |-> 1, CouldNotConnect |-> 2, InternalError |-> 3,
     NoResponse |-> 4, NonexistentClass |-> 5, NoSeatAvailable |-> 6]

\* Mutant: an enumeration that starts at zero.
SubsystemError_Zero ==
    [InputBadAirport |-> 0, InputPastDate |-> 1, InputBadDateRange |-> 2,
     InputBadClass |-> 3, NoFlightFound |-> 4, NoSeatFound |-> 5,
     SubsysProtocolErr |-> 6, SubsysInternal |-> 7, SubsysResource |-> 8,
     SubsysConfig |-> 9, SubsysTimeout |-> 10]

SubsystemError ==
    [InputBadAirport |-> 1, InputPastDate |-> 2, InputBadDateRange |-> 3,
     InputBadClass |-> 4, NoFlightFound |-> 5, NoSeatFound |-> 6,
     SubsysProtocolErr |-> 7, SubsysInternal |-> 8, SubsysResource |-> 9,
     SubsysConfig |-> 10, SubsysTimeout |-> 11]

FailureSource == [BadUserInput |-> 1, SystemError |-> 2, NoSolution |-> 3]

Severity == [Bug |-> 1, Config |-> 2, Resource |-> 3, Normal |-> 4]

Enum(category) ==
    CASE category = "flights"         -> FlightsErrc
      [] category = "flights2"        -> Flights2Errc
      [] category = "seats"           -> SeatsErrc
      [] category = "submodule-error" -> SubsystemError
      [] category = "failure-source"  -> FailureSource
      [] category = "severity"        -> Severity

Subsystems == {"flights", "flights2", "seats"}
Questions  == {"submodule-error", "failure-source", "severity"}

\* make_error_code and make_error_condition: the number and its category.
Make(category, name) == [category |-> category, value |-> Enum(category)[name]]
Members(category) == {Make(category, name) : name \in DOMAIN Enum(category)}

Success == [category |-> "system", value |-> 0]
-----------------------------------------------------------------------------
(* The categories: which SubsystemError a number is.                       *)

FlightsErrCategory ==
    [NonexistentLocations |-> "InputBadAirport", DatesInThePast |-> "InputPastDate",
     InvertedDates |-> "InputBadDateRange", NoFlightsFound |-> "NoFlightFound",
     ProtocolViolation |-> "SubsysProtocolErr", ConnectionError |-> "SubsysConfig",
     ResourceError |-> "SubsysResource", Timeout |-> "SubsysTimeout"]

Flights2ErrCategory ==
    [ZeroFlightsFound |-> "NoFlightFound", InvalidRequestFormat |-> "SubsysProtocolErr",
     CouldNotConnect |-> "SubsysConfig", DatabaseError |-> "SubsysInternal",
     NotEnoughMemory |-> "SubsysResource", InternalError |-> "SubsysInternal",
     NoSuchAirport |-> "InputBadAirport", JourneyInThePast |-> "InputPastDate",
     DatesNotMonotonic |-> "InputBadDateRange"]

SeatsErrCategory ==
    [InvalidRequest |-> "SubsysProtocolErr", CouldNotConnect |-> "SubsysConfig",
     InternalError |-> "SubsysInternal", NoResponse |-> "SubsysTimeout",
     NonexistentClass |-> "InputBadClass", NoSeatAvailable |-> "NoSeatFound"]

Category(category) ==
    CASE category = "flights"  -> FlightsErrCategory
      [] category = "flights2" -> Flights2ErrCategory
      [] category = "seats"    -> SeatsErrCategory

\* The switch of default_error_condition has a case for the code.
Recognised(code) ==
    \/ code = Success
    \/ \E name \in DOMAIN Category(code.category) : code = Make(code.category, name)

default_error_condition(code) ==
    LET name == CHOOSE n \in DOMAIN Enum(code.category) :
                    Make(code.category, n) = code
    IN  IF code = Success THEN Success
        ELSE Make("submodule-error", Category(code.category)[name])

\* FailureSourceCategory::equivalent.
Source ==
    [BadUserInput |-> {"InputBadAirport", "InputPastDate", "InputBadDateRange",
                       "InputBadClass"},
     SystemError  |-> {"SubsysProtocolErr", "SubsysInternal", "SubsysResource",
                       "SubsysConfig", "SubsysTimeout"},
     NoSolution   |-> {"NoFlightFound", "NoSeatFound"}]

\* Mutant: a timeout that is a resource shortage and normal, too.
Level_Twice ==
    [Bug      |-> {"SubsysProtocolErr", "SubsysInternal"},
     Config   |-> {"SubsysConfig"},
     Resource |-> {"SubsysResource", "SubsysTimeout"},
     Normal   |-> {"InputBadAirport", "InputPastDate", "InputBadDateRange",
                   "InputBadClass", "NoFlightFound", "NoSeatFound",
                   "SubsysTimeout"}]

\* SeverityCategory::equivalent.
Level ==
    [Bug      |-> {"SubsysProtocolErr", "SubsysInternal"},
     Config   |-> {"SubsysConfig"},
     Resource |-> {"SubsysResource", "SubsysTimeout"},
     Normal   |-> {"InputBadAirport", "InputPastDate", "InputBadDateRange",
                   "InputBadClass", "NoFlightFound", "NoSeatFound"}]

\* code == condition: the code's category is asked, then the condition's.
Equals(code, condition) ==
    LET is(name) == default_error_condition(code) = Make("submodule-error", name)
        among(table) ==
            \E kind \in DOMAIN table :
                /\ condition = Make(condition.category, kind)
                /\ \E name \in table[kind] : is(name)
    IN  \/ default_error_condition(code) = condition
        \/ condition.category = "failure-source" /\ among(Source)
        \/ condition.category = "severity" /\ among(Level)
-----------------------------------------------------------------------------
CodeInit == ec = Success /\ yes = {} /\ aborted = FALSE

\* main gets an enumerator, or a raw number cast to an enumeration.
Assign ==
    /\ ~aborted
    /\ \E category \in Subsystems : \E value \in 0..MaxRaw :
           ec' = [category |-> category, value |-> value]
    /\ yes' = {}
    /\ UNCHANGED aborted

\* main compares the code: an unrecognised one fails the assertion first.
Compare ==
    /\ ~aborted
    /\ \E question \in Questions : \E condition \in Members(question) :
           IF Recognised(ec)
           THEN /\ yes' = IF Equals(ec, condition) THEN yes \cup {condition} ELSE yes
                /\ UNCHANGED aborted
           ELSE aborted' = TRUE /\ UNCHANGED yes
    /\ UNCHANGED ec

CodeNext == Assign \/ Compare

CodeSpec == CodeInit /\ [][CodeNext]_codeVars
-----------------------------------------------------------------------------
(* Properties.                                                             *)

\* The questions have one answer each: a code is never found to be of two
\* subsystem errors, two sources or two severities, there is one of each to be
\* found, and it is Normal exactly when the system is not its source: a query
\* never disagrees with another (queries.cpp:74-177).
OneAnswerEach ==
    LET recognised == ec # Success /\ Recognised(ec)
        all(question) == {c \in Members(question) : Equals(ec, c)}
    IN  /\ \A c, d \in yes : c.category = d.category => c = d
        /\ recognised => \A q \in Questions : \E c \in Members(q) : all(q) = {c}
        /\ recognised => (Equals(ec, Make("severity", "Normal"))
                              <=> ~Equals(ec, Make("failure-source", "SystemError")))

\* An error is never taken for no error, and to ask about it never ends the
\* program: each enumerator of a subsystem has a case in its category's switch
\* and is not zero, and so is every condition that it is found equal to, as
\* the comments "no 0" in five of the six enumerations ask.
NoErrorIsSuccess ==
    /\ ec # Success /\ ec \in Members(ec.category) => ec.value # 0 /\ ~aborted
    /\ \A condition \in yes : condition.value # 0
=============================================================================
