------------------------------ MODULE Verdict ------------------------------
(***************************************************************************)
(* What the exit code of sealr-verify promises about a stream, whatever    *)
(* the bundle holds: the abstract specification that VerifyBundle          *)
(* implements.  While verification runs, anything may be read and counted; *)
(* the exit code is decided once, and only when its promise is kept.       *)
(***************************************************************************)
EXTENDS Options

CONSTANT
    Written     \* the recorder's history: seq -> record

VARIABLES
    exit,       \* Option: the exit code
    trusted,    \* the trust root came from outside the bundle
    scoped,     \* the manifest lists the stream
    expected,   \* Option: the extent the user pinned
    records,    \* seq -> record as read from the bundle
    attested,   \* sequence numbers counted as attested
    anchored,   \* sequence numbers counted as anchored
    stated      \* extents stated by countersignatures in the bundle

verdictVars == <<exit, trusted, scoped, expected, records, attested, anchored, stated>>

\* Every attested record is the one the recorder wrote at that place.
AttestedWritten ==
    \A s \in attested : /\ s \in DOMAIN records
                        /\ s \in DOMAIN Written
                        /\ records[s] = Written[s]

ReachesTo(extent) == \E s \in DOMAIN records : s >= extent

PassPromise ==
    /\ trusted
    /\ AttestedWritten
    /\ attested = DOMAIN records
    /\ anchored \subseteq attested
    /\ \A m \in stated : ReachesTo(m)
    /\ scoped /\ expected # None => ReachesTo(Get(expected))
    /\ records # <<>> => stated # {} \/ expected # None

PassWithFindingsPromise ==
    /\ trusted => AttestedWritten
    /\ anchored \subseteq attested
    /\ scoped /\ expected # None => ReachesTo(Get(expected))

\* 11 (fail) and the codes of a wrong invocation promise nothing.
Promise(code) ==
    /\ code = 0 => PassPromise
    /\ code = 10 => PassWithFindingsPromise

VerdictInit ==
    /\ exit = None
    /\ records = <<>>
    /\ attested = {}
    /\ anchored = {}
    /\ stated = {}
    /\ trusted \in BOOLEAN /\ scoped \in BOOLEAN

Verify ==
    /\ exit = None
    /\ UNCHANGED <<exit, trusted, scoped, expected>>

Decide ==
    /\ exit = None
    /\ \E code \in {0, 2, 10, 11, 30} : Promise(code) /\ exit' = Some(code)
    /\ UNCHANGED <<trusted, scoped, expected, records, attested, anchored, stated>>

VerdictSpec == VerdictInit /\ [][Verify \/ Decide]_verdictVars
=============================================================================
