---------------------------- MODULE BundleProofs ----------------------------
(***************************************************************************)
(* The whole program on a bundle, step by step, for every value of the     *)
(* constants: what was read and reported by each step of verify_bundle,    *)
(* and that its last step gives an exit code whose promise is kept.        *)
(*                                                                         *)
(* No step looks back at what an earlier one could not read, so the        *)
(* invariant says for each part that it was read or that a finding that    *)
(* rules out a pass is kept; findings are only ever added.  Two things are *)
(* left as hypotheses here and shown in VerdictProofs: that a checkpoint   *)
(* which passes is over the records in the bundle (NotesSound), which      *)
(* rests on the walks of validate_chain, and that the difference of two    *)
(* counts finds every unattested record (TailCounted).                     *)
(***************************************************************************)
EXTENDS VerifyBundle, SequenceFacts

\* The steps in order, those after a given one.
AfterContainer ==
    {"roots", "certs", "walks", "keys", "revocations", "chain", "checkpoints", "anchors",
     "coverage", "report", "exited"}
AfterRoots == AfterContainer \ {"roots"}
AfterCerts == AfterRoots \ {"certs"}
AfterCheckpoints == {"anchors", "coverage", "report", "exited"}

\* The program was not ended by its arguments.
Ran == step # "exited" \/ options.usage = "ok"

\* The finding is in the report.
Reported(class) == class \in findings

\* Each part is read, or a finding that rules out a pass says why not.
ReadInv ==
    /\ container \in [schema_known : BOOLEAN, contents : {"listed", "unlisted", "altered"},
                      scoped : BOOLEAN, checkpoints : BOOLEAN]
    /\ step \in {"arguments", "container"} \cup AfterContainer
    /\ options.usage # "ok" => step \in {"arguments", "exited"} /\ exit # Some(0)
    /\ Ran /\ step \in AfterContainer =>
          /\ container.schema_known \/ Reported("schema_version_unknown")
          /\ \/ container.contents = "listed"
             \/ Reported("unlisted_entry")
             \/ Reported("content_hash_mismatch")
    /\ Ran /\ step \in AfterRoots => root_pems # <<>> \/ Reported("no_trust_root")
    /\ Ran /\ step \in AfterCerts =>
          /\ identity # None \/ Reported("identity_missing")
          /\ root_pems = <<>> \/ identity = None \/ PemParses(Listed)
                \/ Reported("identity_unparseable")
    /\ Ran /\ step \in AfterCheckpoints /\ container.scoped =>
          container.checkpoints \/ Reported("checkpoints_missing")
    /\ walk # None => step = "walks"
    /\ exit # None => step = "exited"
    /\ exit = Some(0) => findings \cap (Errors \cup Warnings) = {}
-----------------------------------------------------------------------------
\* Every step adds findings and takes none back.
LEMMA FindingsGrow ==
    ASSUME [Next]_bundleVars
    PROVE  findings \subseteq findings'
  <1>1. CASE RefuseArguments \/ AcceptArguments \/ VerifyContainer \/ EndCheckpoints
             \/ EndAnchors \/ CrossCheckCoverage \/ Conclude
    BY <1>1, Zenon DEF RefuseArguments, AcceptArguments, VerifyContainer, EndCheckpoints, EndAnchors,
                CrossCheckCoverage, Conclude
  <1>2. CASE VerifyIdentity
    BY <1>2, Zenon DEF VerifyIdentity, IdentityNext, SelectRoots, ListCerts, BeginWalk, ReachRoot,
                ClimbToIssuer, GiveUpWalk, EndWalks, OverrideConsoleKey, ReadConsoleKey,
                EndConsoleKeys, CheckRevocations
  <1>3. CASE VerifyRecord \/ EndChain \/ SkipStream
    BY <1>3, Zenon DEF VerifyRecord, EndChain, SkipStream, SV!ReadBadLine, SV!ReadRecord, SV!VerifyNext,
                SV!StreamReadError, SV!EndOfStream
  <1>4. CASE VerifyNextCheckpoint
    BY <1>4, Zenon DEF VerifyNextCheckpoint, CV!VerifyCheckpoint, CV!RejectCheckpoint, CV!RejectRoot,
                CV!RejectCountersignature, CV!AcceptCheckpoint
  <1>5. CASE VerifyAnchor
    BY <1>5, Zenon DEF VerifyAnchor, AV!CheckBatch, AV!RejectBatch, AV!LeavePending, AV!AcceptBatch,
                AV!CheckDay, AV!RejectDay, AV!AcceptDay
  <1>6. CASE UNCHANGED bundleVars
    BY <1>6, Zenon DEF bundleVars
  <1> QED
    BY <1>1, <1>2, <1>3, <1>4, <1>5, <1>6 DEF Next

LEMMA ReadInit == Init => ReadInv
  <1> SUFFICES ASSUME Init PROVE ReadInv
    BY Zenon
  <1>1. container \in [schema_known : BOOLEAN, contents : {"listed", "unlisted", "altered"},
                       scoped : BOOLEAN, checkpoints : BOOLEAN]
    BY InputsAssumption, Zenon DEF Init, Inputs
  <1>2. step = "arguments" /\ exit = None /\ walk = None
    BY Zenon DEF Init, IdentityInit
  <1> QED
    BY <1>1, <1>2, Zenon
    DEF ReadInv, Ran, AfterContainer, AfterRoots, AfterCerts, AfterCheckpoints, Some, None

\* A step that leaves the given files alone and does not end the program keeps
\* what was established, and has to establish the rest only.
LEMMA ReadKept ==
    ASSUME ReadInv, UNCHANGED <<container, options, identity, exit>>,
           findings \subseteq findings',
           step # "exited", options.usage = "ok",
           step' \in {"container"} \cup (AfterContainer \ {"exited"}),
           walk' # None => step' = "walks",
           step \in AfterRoots => root_pems' = root_pems,
           step' \in AfterContainer /\ step \notin AfterContainer =>
              /\ container.schema_known \/ Reported("schema_version_unknown")'
              /\ \/ container.contents = "listed"
                 \/ Reported("unlisted_entry")'
                 \/ Reported("content_hash_mismatch")',
           step' \in AfterRoots /\ step \notin AfterRoots =>
              root_pems' # <<>> \/ Reported("no_trust_root")',
           step' \in AfterCerts /\ step \notin AfterCerts =>
              /\ identity # None \/ Reported("identity_missing")'
              /\ root_pems' = <<>> \/ identity = None \/ PemParses(Listed)
                    \/ Reported("identity_unparseable")',
           step' \in AfterCheckpoints /\ step \notin AfterCheckpoints /\ container.scoped =>
              container.checkpoints \/ Reported("checkpoints_missing")'
    PROVE  ReadInv'
  <1>1. PemParses(Listed)' = PemParses(Listed)
    BY Zenon DEF PemParses, Listed
  <1>2. exit = None /\ exit' = None
    BY Zenon DEF ReadInv
  <1>3. \A class : Reported(class) => Reported(class)'
    BY Zenon DEF Reported
  <1>4. AfterCerts \subseteq AfterRoots
    BY Zenon DEF AfterCerts
  <1>5. /\ AfterContainer' = AfterContainer /\ AfterRoots' = AfterRoots
        /\ AfterCerts' = AfterCerts /\ AfterCheckpoints' = AfterCheckpoints
    BY Zenon DEF AfterContainer, AfterRoots, AfterCerts, AfterCheckpoints
  <1>6. exit' # Some(0)
    BY <1>2 DEF Some, None
  <1> QED
    BY <1>1, <1>2, <1>3, <1>4, <1>5, <1>6 DEF ReadInv, Ran

LEMMA ReadNext == ReadInv /\ [Next]_bundleVars => ReadInv'
  <1> SUFFICES ASSUME ReadInv, [Next]_bundleVars PROVE ReadInv'
    BY Zenon
  <1> USE DEF AfterContainer, AfterRoots, AfterCerts, AfterCheckpoints
  <1>0. findings \subseteq findings'
    BY FindingsGrow, Zenon
  <1>a. options.usage # "ok" => step \in {"arguments", "exited"}
    BY Zenon DEF ReadInv
  <1>b. walk # None => step = "walks"
    BY Zenon DEF ReadInv
  <1>1. CASE RefuseArguments
    <2>1. /\ UNCHANGED <<container, options, identity, walk, root_pems>>
          /\ step' = "exited" /\ options.usage # "ok" /\ step = "arguments"
          /\ exit' = Some(2) \/ exit' = Some(30)
      BY <1>1, Zenon DEF RefuseArguments, fixedVars, trustVars
    <2>2. exit' # Some(0) /\ exit' # None
      BY <2>1 DEF Some, None
    <2> QED
      BY <1>b, <2>1, <2>2 DEF ReadInv, Ran
  <1>2. CASE AcceptArguments
    <2>1. /\ UNCHANGED <<container, options, identity, exit, walk, root_pems>>
          /\ step = "arguments" /\ step' = "container" /\ options.usage = "ok"
      BY <1>2, Zenon DEF AcceptArguments, fixedVars, trustVars
    <2> QED
      BY <1>0, <1>b, <2>1, ReadKept
  <1>3. CASE VerifyContainer
    <2>1. /\ UNCHANGED <<container, options, identity, exit, walk, root_pems>>
          /\ step = "container" /\ step' = "roots"
      BY <1>3, Zenon DEF VerifyContainer, fixedVars, trustVars
    <2>2. container.schema_known \/ Reported("schema_version_unknown")'
      BY <1>3, Zenon DEF VerifyContainer, Reported
    <2>3. \/ container.contents = "listed"
          \/ Reported("unlisted_entry")' \/ Reported("content_hash_mismatch")'
      <3>1. container.contents \in {"listed", "unlisted", "altered"}
        BY Zenon DEF ReadInv
      <3> QED
        BY <1>3, <3>1, Zenon DEF VerifyContainer, Reported
    <2> QED
      BY <1>0, <1>a, <1>b, <2>1, <2>2, <2>3, ReadKept
  <1>4. CASE VerifyIdentity
    <2>0. UNCHANGED <<container, options, identity, exit>>
      BY <1>4, Zenon DEF VerifyIdentity, IdentityNext, SelectRoots, ListCerts, BeginWalk, ReachRoot,
                  ClimbToIssuer, GiveUpWalk, EndWalks, OverrideConsoleKey, ReadConsoleKey,
                  EndConsoleKeys, CheckRevocations, givenVars
    <2>1. CASE SelectRoots
      <3>1. step = "roots" /\ step' = "certs" /\ walk' = walk
        BY <2>1, Zenon DEF SelectRoots
      <3>2. root_pems' # <<>> \/ Reported("no_trust_root")'
        BY <2>1 DEF SelectRoots, Reported
      <3> QED
        BY <1>0, <1>a, <1>b, <2>0, <3>1, <3>2, ReadKept, SMTT(30)
    <2>2. CASE ListCerts
      <3>1. step = "certs" /\ step' = "walks" /\ UNCHANGED <<walk, root_pems>>
        BY <2>2, Zenon DEF ListCerts
      <3>2. /\ identity # None \/ Reported("identity_missing")'
            /\ root_pems' = <<>> \/ identity = None \/ PemParses(Listed)
                  \/ Reported("identity_unparseable")'
        BY <2>2, Zenon DEF ListCerts, CertFindings, Reported
      <3> QED
        BY <1>0, <1>a, <1>b, <2>0, <3>1, <3>2, ReadKept
    <2>3. CASE BeginWalk \/ ReachRoot \/ ClimbToIssuer \/ GiveUpWalk
      <3>1. step = "walks" /\ step' = "walks" /\ root_pems' = root_pems
        BY <1>b, <2>3, Zenon DEF BeginWalk, ReachRoot, ClimbToIssuer, GiveUpWalk
      <3> QED
        BY <1>0, <1>a, <2>0, <3>1, ReadKept
    <2>4. CASE EndWalks \/ OverrideConsoleKey \/ ReadConsoleKey \/ EndConsoleKeys
               \/ CheckRevocations
      <3>1. /\ step \in {"walks", "keys", "revocations"}
            /\ step' \in {"keys", "revocations", "chain"}
            /\ walk' = None /\ root_pems' = root_pems
        BY <1>b, <2>4, Zenon DEF EndWalks, OverrideConsoleKey, ReadConsoleKey, EndConsoleKeys,
                          CheckRevocations
      <3> QED
        BY <1>0, <1>a, <2>0, <3>1, ReadKept
    <2> QED
      BY <1>4, <2>1, <2>2, <2>3, <2>4 DEF VerifyIdentity, IdentityNext
  <1>5. CASE VerifyRecord \/ EndChain \/ VerifyNextCheckpoint
    <2>1. /\ UNCHANGED <<container, options, identity, exit, walk, root_pems>>
          /\ step \in {"chain", "checkpoints"} /\ step' \in {"chain", "checkpoints"}
      BY <1>5, Zenon DEF VerifyRecord, EndChain, VerifyNextCheckpoint, fixedVars, trustVars
    <2> QED
      BY <1>0, <1>a, <1>b, <2>1, ReadKept
  <1>6. CASE EndCheckpoints
    <2>1. /\ UNCHANGED <<container, options, identity, exit, walk, root_pems>>
          /\ step = "checkpoints" /\ step' = "anchors"
      BY <1>6, Zenon DEF EndCheckpoints, fixedVars, trustVars
    <2>2. container.checkpoints \/ Reported("checkpoints_missing")'
      BY <1>6, Zenon DEF EndCheckpoints, Reported
    <2> QED
      BY <1>0, <1>a, <1>b, <2>1, <2>2, ReadKept
  <1>10. CASE SkipStream
    <2>1. /\ UNCHANGED <<container, options, identity, exit, walk, root_pems>>
          /\ step = "chain" /\ step' = "anchors" /\ ~container.scoped
      BY <1>10, Zenon DEF SkipStream, fixedVars, trustVars
    <2> QED
      BY <1>0, <1>a, <1>b, <2>1, ReadKept
  <1>7. CASE VerifyAnchor \/ EndAnchors \/ CrossCheckCoverage
    <2>1. /\ UNCHANGED <<container, options, identity, exit, walk, root_pems>>
          /\ step \in {"anchors", "coverage"} /\ step' \in {"anchors", "coverage", "report"}
      BY <1>7, Zenon DEF VerifyAnchor, EndAnchors, CrossCheckCoverage, fixedVars, trustVars
    <2> QED
      BY <1>0, <1>a, <1>b, <2>1, ReadKept
  <1>8. CASE Conclude
    <2>1. /\ UNCHANGED <<container, options, identity, walk, root_pems, findings>>
          /\ step = "report" /\ step' = "exited"
          /\ exit' = Some(ExitCode[ComputeResult])
      BY <1>8 DEF Conclude, fixedVars, trustVars
    <2>2. options.usage = "ok" /\ walk = None
      BY <1>a, <1>b, <2>1
    <2>3. exit' = Some(0) => findings \cap (Errors \cup Warnings) = {}
      <3>1. findings \cap Errors # {} => ExitCode[ComputeResult] = 11
        BY Zenon DEF ExitCode, ComputeResult
      <3>2. findings \cap Errors = {} /\ findings \cap Warnings # {} =>
               ExitCode[ComputeResult] = 10
        BY Zenon DEF ExitCode, ComputeResult
      <3> QED
        BY <2>1, <3>1, <3>2 DEF Some
    <2>4. exit' = Some(0) => (findings \cap (Errors \cup Warnings) = {})'
      BY <2>1, <2>3 DEF Errors, Warnings, IdentityErrors, IdentityWarnings, CV!ErrorClasses,
                        AV!AnchorErrors, SV!Classes, SV!Severity
    <2>5. PemParses(Listed)' = PemParses(Listed)
      BY <2>1, Zenon DEF PemParses, Listed
    <2>6. \A class : Reported(class)' = Reported(class)
      BY <2>1, Zenon DEF Reported
    <2> QED
      BY <2>1, <2>2, <2>4, <2>5, <2>6 DEF ReadInv, Ran
  <1>9. CASE UNCHANGED bundleVars
    <2>1. UNCHANGED <<container, options, identity, exit, step, walk, root_pems, findings>>
      BY <1>9, Zenon DEF bundleVars, fixedVars, trustVars
    <2>2. PemParses(Listed)' = PemParses(Listed)
      BY <2>1, Zenon DEF PemParses, Listed
    <2>3. \A class : Reported(class)' = Reported(class)
      BY <2>1, Zenon DEF Reported
    <2>4. (findings \cap (Errors \cup Warnings))' = findings \cap (Errors \cup Warnings)
      BY <2>1, Zenon DEF Errors, Warnings, IdentityErrors, IdentityWarnings, CV!ErrorClasses,
                  AV!AnchorErrors, SV!Classes, SV!Severity
    <2> QED
      BY <2>1, <2>2, <2>3, <2>4 DEF ReadInv, Ran
  <1> QED
    BY <1>1, <1>2, <1>3, <1>4, <1>5, <1>6, <1>10, <1>7, <1>8, <1>9, SMTT(30) DEF Next

LEMMA ReadAlways == Spec => []ReadInv
  BY ReadInit, ReadNext, PTL DEF Spec
-----------------------------------------------------------------------------
(* What is given, and the order of the steps. *)

\* What the program was given are inputs of its scenario.
GivenInv ==
    /\ scenario \in DOMAIN Scenarios
    /\ options \in Inputs.options
    /\ identity \in Inputs.identities

\* What is given stays.
LEMMA GivenKept ==
    ASSUME [Next]_bundleVars
    PROVE  UNCHANGED <<scenario, container, options, identity, now_unix>>
  BY Zenon DEF Next, bundleVars, fixedVars, RefuseArguments, AcceptArguments, VerifyContainer,
         VerifyIdentity, IdentityNext, SelectRoots, ListCerts, BeginWalk, ReachRoot,
         ClimbToIssuer, GiveUpWalk, EndWalks, OverrideConsoleKey, ReadConsoleKey,
         EndConsoleKeys, CheckRevocations, givenVars, VerifyRecord, EndChain,
         SkipStream, VerifyNextCheckpoint, EndCheckpoints, VerifyAnchor, EndAnchors,
         CrossCheckCoverage, Conclude

\* The order of the steps, and which action takes the decisive ones.
LEMMA StepOrder ==
    ASSUME [Next]_bundleVars
    PROVE  \/ step' = step
           \/ step = "arguments" /\ step' = "container" /\ options.usage = "ok"
           \/ step = "arguments" /\ step' = "exited" /\ RefuseArguments
           \/ step = "container" /\ step' = "roots"
           \/ step = "roots" /\ step' = "certs" /\ SelectRoots
           \/ step = "certs" /\ step' = "walks"
           \/ step = "walks" /\ step' = "keys"
           \/ step = "keys" /\ step' = "revocations"
           \/ step = "revocations" /\ step' = "chain"
           \/ step = "chain" /\ step' = "checkpoints" /\ container.scoped
           \/ step = "chain" /\ step' = "anchors" /\ ~container.scoped
           \/ step = "checkpoints" /\ step' = "anchors"
           \/ step = "anchors" /\ step' = "coverage"
           \/ step = "coverage" /\ step' = "report" /\ CrossCheckCoverage
           \/ step = "report" /\ step' = "exited" /\ Conclude
  <1>1. CASE VerifyIdentity
    <2>1. CASE SelectRoots
      <3>1. step = "roots" /\ step' = "certs"
        BY <2>1, Zenon DEF SelectRoots
      <3> QED
        BY <2>1, <3>1, Zenon
    <2>2. CASE ListCerts \/ BeginWalk \/ ReachRoot \/ ClimbToIssuer \/ GiveUpWalk \/ EndWalks
      BY <2>2, Zenon DEF ListCerts, BeginWalk, ReachRoot, ClimbToIssuer, GiveUpWalk, EndWalks
    <2>3. CASE OverrideConsoleKey \/ ReadConsoleKey \/ EndConsoleKeys \/ CheckRevocations
      BY <2>3, Zenon DEF OverrideConsoleKey, ReadConsoleKey, EndConsoleKeys, CheckRevocations
    <2> QED
      BY <1>1, <2>1, <2>2, <2>3, Zenon DEF VerifyIdentity, IdentityNext
  <1>2. CASE RefuseArguments \/ CrossCheckCoverage \/ Conclude
    <2>1. /\ RefuseArguments => step = "arguments" /\ step' = "exited"
          /\ CrossCheckCoverage => step = "coverage" /\ step' = "report"
          /\ Conclude => step = "report" /\ step' = "exited"
      BY Zenon DEF RefuseArguments, CrossCheckCoverage, Conclude
    <2> QED
      BY <1>2, <2>1, Zenon
  <1>3. CASE AcceptArguments \/ VerifyContainer \/ VerifyRecord \/ EndChain \/ SkipStream
    BY <1>3, Zenon DEF AcceptArguments, VerifyContainer, VerifyRecord, EndChain, SkipStream
  <1>4. CASE VerifyNextCheckpoint \/ EndCheckpoints \/ VerifyAnchor \/ EndAnchors
    BY <1>4, Zenon DEF VerifyNextCheckpoint, EndCheckpoints, VerifyAnchor, EndAnchors
  <1>5. CASE UNCHANGED bundleVars
    BY <1>5, Zenon DEF bundleVars
  <1> QED
    BY <1>1, <1>2, <1>3, <1>4, <1>5, Zenon DEF Next

LEMMA IdentitySteps ==
    ASSUME ReadInv, VerifyIdentity
    PROVE  step \in {"roots", "certs", "walks", "keys", "revocations"}
  <1>1. walk # None => step = "walks"
    BY Zenon DEF ReadInv
  <1>2. CASE ReachRoot \/ ClimbToIssuer \/ GiveUpWalk
    BY <1>1, <1>2, Zenon DEF ReachRoot, ClimbToIssuer, GiveUpWalk
  <1>3. CASE SelectRoots \/ ListCerts \/ BeginWalk \/ EndWalks
    BY <1>3, Zenon DEF SelectRoots, ListCerts, BeginWalk, EndWalks
  <1>4. CASE OverrideConsoleKey \/ ReadConsoleKey \/ EndConsoleKeys \/ CheckRevocations
    BY <1>4, Zenon DEF OverrideConsoleKey, ReadConsoleKey, EndConsoleKeys, CheckRevocations
  <1> QED
    BY <1>2, <1>3, <1>4, Zenon DEF VerifyIdentity, IdentityNext

\* What the steps outside the verification of identity leave alone.
LEMMA OtherSteps ==
    ASSUME Next, ~VerifyIdentity
    PROVE  /\ UNCHANGED <<root_pems, queue, walk, cert_map, entries, key_map, revocations>>
           /\ step \notin {"roots", "certs", "walks", "keys", "revocations", "exited"}
           /\ step' \notin {"arguments", "certs", "walks", "keys", "revocations"}
           /\ step' \in {"container", "roots"} => AcceptArguments \/ VerifyContainer
           /\ step = "report" => step' = "exited"
  <1>1. CASE AcceptArguments \/ VerifyContainer
    BY <1>1, Zenon DEF AcceptArguments, VerifyContainer, trustVars
  <1>2. CASE RefuseArguments \/ VerifyRecord \/ EndChain \/ SkipStream
    BY <1>2, Zenon DEF RefuseArguments, VerifyRecord, EndChain, SkipStream, trustVars
  <1>3. CASE VerifyNextCheckpoint \/ EndCheckpoints \/ VerifyAnchor \/ EndAnchors
    BY <1>3, Zenon DEF VerifyNextCheckpoint, EndCheckpoints, VerifyAnchor, EndAnchors, trustVars
  <1>4. CASE CrossCheckCoverage \/ Conclude
    BY <1>4, Zenon DEF CrossCheckCoverage, Conclude, trustVars
  <1> QED
    BY <1>1, <1>2, <1>3, <1>4, Zenon DEF Next

-----------------------------------------------------------------------------
(* Nothing is passed over. *)

AfterRevocations == {"chain", "checkpoints", "anchors", "coverage", "report", "exited"}

ListSigned == RevocationList # None => SignedByConsole(Get(RevocationList))

\* Once the revocation list was looked at, a console key signed it or the report
\* says why not; keys and list stay as they are.
SignedInv ==
    Ran /\ step \in AfterRevocations =>
       \/ ListSigned
       \/ Reported("revocation_list_unverifiable")
       \/ Reported("revocation_list_signature_invalid")

LEMMA SignedNext ==
    ASSUME ReadInv, SignedInv, [Next]_bundleVars
    PROVE  SignedInv'
  <1>1. /\ UNCHANGED <<options, identity>>
        /\ findings \subseteq findings'
    BY GivenKept, FindingsGrow, Zenon
  <1>2. \A class : Reported(class) => Reported(class)'
    BY <1>1, Zenon DEF Reported
  <1>3. UNCHANGED key_map => ListSigned' = ListSigned
    BY <1>1, Zenon DEF ListSigned, RevocationList, SignedByConsole, ConsoleKeys
  <1>4. CASE VerifyIdentity
    <2>1. CASE CheckRevocations
      <3>1. UNCHANGED key_map /\ step = "revocations"
        BY <2>1, Zenon DEF CheckRevocations
      <3>2. CASE RevocationList = None
        BY <1>3, <3>1, <3>2, Zenon DEF SignedInv, ListSigned
      <3>3. CASE RevocationList # None
        <4>1. findings' = findings \cup RevocationFindings(Get(RevocationList))
          BY <2>1, <3>3, Zenon DEF CheckRevocations
        <4>2. \/ SignedByConsole(Get(RevocationList))
              \/ Reported("revocation_list_unverifiable")'
              \/ Reported("revocation_list_signature_invalid")'
          BY <4>1, Zenon DEF RevocationFindings, Reported
        <4> QED
          BY <1>3, <3>1, <4>2, Zenon DEF SignedInv, ListSigned
      <3> QED
        BY <3>2, <3>3, Zenon
    <2>2. CASE ~CheckRevocations
      <3>1. step' \in {"certs", "walks", "keys", "revocations"}
        <4>1. walk # None => step = "walks"
          BY Zenon DEF ReadInv
        <4> QED
          BY <1>4, <2>2, <4>1, Zenon
          DEF VerifyIdentity, IdentityNext, SelectRoots, ListCerts, BeginWalk, ReachRoot,
              ClimbToIssuer, GiveUpWalk, EndWalks, OverrideConsoleKey, ReadConsoleKey,
              EndConsoleKeys
      <3> QED
        BY <3>1, Zenon DEF SignedInv, AfterRevocations
    <2> QED
      BY <2>1, <2>2, Zenon
  <1>5. CASE Next /\ ~VerifyIdentity
    <2>1. UNCHANGED key_map /\ step # "exited"
      BY <1>5, OtherSteps, Zenon
    <2>2. CASE step \in AfterRevocations
      <3>1. Ran
        BY <2>1, Zenon DEF Ran
      <3> QED
        BY <1>2, <1>3, <2>1, <2>2, <3>1, Zenon DEF SignedInv
    <2>3. CASE step \notin AfterRevocations
      <3>1. step' \notin AfterRevocations \/ ~Ran'
        <4>1. step # "revocations"
          BY <1>5, OtherSteps, Zenon
        <4> QED
          BY <1>1, <2>3, <4>1, StepOrder, Zenon DEF AfterRevocations, Ran, RefuseArguments
      <3> QED
        BY <3>1, Zenon DEF SignedInv, AfterRevocations
    <2> QED
      BY <2>2, <2>3, Zenon
  <1>6. CASE UNCHANGED bundleVars
    <2>1. UNCHANGED <<key_map, step, findings>>
      BY <1>6, Zenon DEF bundleVars, trustVars
    <2> QED
      BY <1>1, <1>2, <1>3, <2>1, Zenon DEF SignedInv, Ran
  <1> QED
    BY <1>4, <1>5, <1>6, Zenon

LEMMA SignedAlways == Spec => []SignedInv
  <1>1. Init => SignedInv
    BY Zenon DEF Init, SignedInv, AfterRevocations
  <1>2. ReadInv /\ SignedInv /\ [Next]_bundleVars => SignedInv'
    BY SignedNext, Zenon
  <1> QED
    BY <1>1, <1>2, ReadAlways, PTL DEF Spec

\* Whatever the bundle holds and whatever options the program is given: exit code
\* 0 means that manifest and identity were there and could be read, and so were
\* the checkpoints of a stream that the manifest lists, that the container is the
\* one the manifest lists, that no line of the stream was skipped, and that a
\* revocation list was signed with a console key in use.
THEOREM NothingSkipped == Spec => []UnreadableReported
  <1>1. ASSUME ReadInv, SignedInv PROVE UnreadableReported
    <2> SUFFICES ASSUME exit = Some(0)
                 PROVE  /\ identity # None /\ PemParses(Listed)
                        /\ container.schema_known /\ container.contents = "listed"
                        /\ container.scoped => container.checkpoints
                        /\ findings \cap LineFaults = {}
                        /\ RevocationList # None => SignedByConsole(Get(RevocationList))
      BY Zenon DEF UnreadableReported
    <2>1. step = "exited" /\ options.usage = "ok" /\ Ran
      BY <1>1, Zenon DEF ReadInv, Ran, Some, None
    <2>2. findings \cap (Errors \cup Warnings) = {}
      BY <1>1, Zenon DEF ReadInv
    <2>3. \A class \in {"schema_version_unknown", "unlisted_entry", "content_hash_mismatch",
                         "no_trust_root", "identity_missing", "identity_unparseable",
                         "checkpoints_missing", "record_parse_error", "record_invalid",
                         "stream_read_error", "revocation_list_unverifiable",
                         "revocation_list_signature_invalid"} : ~Reported(class)
      BY <2>2, Zenon DEF Reported, Errors, Warnings, IdentityErrors, IdentityWarnings, SV!Classes,
                  SV!Severity
    <2>4. findings \cap LineFaults = {}
      BY <2>3, InputsAssumption, Zenon DEF Reported
    <2>5. /\ container.schema_known /\ container.contents = "listed"
          /\ container.scoped => container.checkpoints
          /\ identity # None /\ root_pems # <<>>
      BY <1>1, <2>1, <2>3, Zenon
      DEF ReadInv, AfterContainer, AfterRoots, AfterCerts, AfterCheckpoints
    <2>6. PemParses(Listed)
      BY <1>1, <2>1, <2>3, <2>5 DEF ReadInv, AfterContainer, AfterRoots, AfterCerts
    <2>7. RevocationList # None => SignedByConsole(Get(RevocationList))
      BY <1>1, <2>1, <2>3, Zenon DEF SignedInv, AfterRevocations, ListSigned
    <2> QED
      BY <2>4, <2>5, <2>6, <2>7, Zenon
  <1> QED
    BY <1>1, ReadAlways, SignedAlways, PTL
-----------------------------------------------------------------------------
\* Once the roots are selected, the one used for certificates is of the genuine
\* hierarchy, or it came with the bundle and the report says so.
RootsInv ==
    Ran /\ step \in AfterRoots =>
       /\ RootFromOutside \/ Reported("root_bundle_pinned") \/ Reported("no_trust_root")
       /\ RootFromOutside /\ RootsParse => Root.key \in Genuine.keys

\* The roots change in one step only.
LEMMA RootsKept ==
    ASSUME [Next]_bundleVars, ~SelectRoots
    PROVE  root_pems' = root_pems
  <1>1. CASE VerifyIdentity
    BY <1>1, Zenon DEF VerifyIdentity, IdentityNext, ListCerts, BeginWalk, ReachRoot,
       ClimbToIssuer, GiveUpWalk, EndWalks, OverrideConsoleKey, ReadConsoleKey,
       EndConsoleKeys, CheckRevocations
  <1>2. CASE UNCHANGED bundleVars
    BY <1>2, Zenon DEF bundleVars, trustVars
  <1> QED
    BY <1>1, <1>2, OtherSteps, Zenon

LEMMA RootsNext ==
    ASSUME GivenInv, RootsInv, [Next]_bundleVars
    PROVE  RootsInv'
  <1>1. findings \subseteq findings' /\ UNCHANGED <<scenario, options, identity>>
    BY FindingsGrow, GivenKept, Zenon
  <1>2. RootFromOutside' = RootFromOutside
    BY <1>1, Zenon DEF RootFromOutside
  <1>3. CASE SelectRoots
    <2>1. \/ RootFromOutside
          \/ Reported("root_bundle_pinned")' \/ Reported("no_trust_root")'
      BY <1>3, Zenon DEF SelectRoots, RootFromOutside, Reported
    <2>2. ASSUME RootFromOutside, RootsParse' PROVE Root.key' \in Genuine.keys
      <3>1. PICK pem : /\ root_pems' = <<pem>>
                       /\ pem # <<>> => pem[1].key \in Genuine.keys
        <4>1. \/ options.root # None /\ root_pems' = <<Get(options.root)>>
              \/ root_pems' = <<options.embedded>>
          BY <1>3, <2>2, Zenon DEF SelectRoots, RootFromOutside
        <4>2. /\ options.root # None /\ Get(options.root) # <<>> =>
                    Get(options.root)[1].key \in Genuine.keys
              /\ options.embedded # <<>> => options.embedded[1].key \in Genuine.keys
          BY KeysAssumption, Zenon DEF GivenInv, Inputs
        <4> QED
          BY <4>1, <4>2
      <3>2. DOMAIN root_pems' = {1} /\ root_pems'[1] = pem
        BY <3>1
      <3>3. pem # <<>>
        BY <2>2, <3>2, Zenon DEF RootsParse
      <3>4. {i \in DOMAIN root_pems' : root_pems'[i] # <<>>} = {1}
        BY <3>2, <3>3
      <3>5. Min({1}) = 1
        BY DEF Min
      <3> QED
        BY <3>1, <3>2, <3>3, <3>4, <3>5, Zenon DEF Root
    <2> QED
      BY <1>2, <2>1, <2>2 DEF RootsInv
  <1>4. CASE ~SelectRoots
    <2>1. root_pems' = root_pems
      BY <1>4, RootsKept, Zenon
    <2>2. RootsParse' = RootsParse /\ Root' = Root
      BY <2>1, Zenon DEF RootsParse, Root, PemParses
    <2>3. Ran' /\ step' \in AfterRoots => Ran /\ step \in AfterRoots
      BY <1>1, <1>4, StepOrder, Zenon DEF Ran, AfterRoots, AfterContainer, RefuseArguments
    <2> QED
      BY <1>1, <1>2, <2>2, <2>3, Zenon DEF RootsInv, Reported
  <1> QED
    BY <1>3, <1>4, Zenon
-----------------------------------------------------------------------------
(* The records read. *)

BeforeChain ==
    {"arguments", "container", "roots", "certs", "walks", "keys", "revocations"}

\* Line i is the last one with this sequence number.
LastLine(i, s) ==
    /\ i \in DOMAIN lines /\ lines[i].seq = s
    /\ \A j \in DOMAIN lines : lines[j].seq = s => j <= i

\* hashes_by_seq holds the hash of the last record read under each number, and
\* each record has its own hash unless the report says otherwise.
LinesInv ==
    /\ IsSeq(lines)
    /\ \A i \in DOMAIN lines : IsLine(lines[i])
    /\ \A s \in DOMAIN hashes_by_seq : \E i :
          LastLine(i, s) /\ hashes_by_seq[s] = lines[i].record_hash
    /\ \/ Reported("record_hash_mismatch")
       \/ \A i \in DOMAIN lines : lines[i].record_hash = SV!ComputeHash(lines[i])
    /\ step \in BeforeChain \/ ~container.scoped =>
          DOMAIN hashes_by_seq = {}

LEMMA LinesInit == Init => LinesInv
  <1> SUFFICES ASSUME Init PROVE LinesInv
    BY Zenon
  <1>1. lines = <<>> /\ hashes_by_seq = <<>>
    BY Zenon DEF Init, SV!VerifierInit
  <1>3. IsSeq(lines)
    BY <1>1 DEF IsSeq
  <1> QED
    BY <1>1, <1>3 DEF LinesInv

\* One record more.
LEMMA LineRead ==
    ASSUME LinesInv, NEW r, IsLine(r), SV!ReadRecord(r),
           step' \notin BeforeChain, container'.scoped
    PROVE  LinesInv'
  <1>1. /\ lines' = Append(lines, r)
        /\ hashes_by_seq' = [s \in DOMAIN hashes_by_seq \cup {r.seq} |->
                               IF s = r.seq THEN r.record_hash ELSE hashes_by_seq[s]]
        /\ findings' = findings \cup SV!RecordFindings(r)
    BY Zenon DEF SV!ReadRecord, SV!VerifyNext, SV!CollectStats
  <1>2. /\ IsSeq(lines') /\ Len(lines) \in Nat /\ Len(lines') = Len(lines) + 1
        /\ \A i \in 1..Len(lines) : lines'[i] = lines[i]
        /\ lines'[Len(lines) + 1] = r
    BY <1>1, AppendFacts DEF LinesInv
  <1>3. DOMAIN lines = 1..Len(lines) /\ DOMAIN lines' = 1..(Len(lines) + 1)
    BY <1>2 DEF LinesInv, IsSeq
  <1>4. \A i \in DOMAIN lines' : IsLine(lines'[i])
    BY <1>2, <1>3 DEF LinesInv
  <1>6. ASSUME NEW s \in DOMAIN hashes_by_seq'
        PROVE  \E i : LastLine(i, s)' /\ hashes_by_seq'[s] = lines'[i].record_hash
    <2>1. CASE s = r.seq
      <3>1. PICK n : n = Len(lines) + 1
        BY Zenon
      <3>2. LastLine(n, s)'
        BY <1>2, <1>3, <2>1, <3>1, SMTT(30) DEF LastLine
      <3> QED
        BY <1>1, <1>2, <2>1, <3>1, <3>2, Zenon
    <2>2. CASE s # r.seq
      <3>1. s \in DOMAIN hashes_by_seq /\ hashes_by_seq'[s] = hashes_by_seq[s]
        BY <1>1, <2>2, Zenon
      <3>2. PICK i : LastLine(i, s) /\ hashes_by_seq[s] = lines[i].record_hash
        BY <3>1, Zenon DEF LinesInv
      <3>3. LastLine(i, s)' /\ lines'[i] = lines[i]
        BY <1>2, <1>3, <2>2, <3>2, SMTT(30) DEF LastLine
      <3> QED
        BY <3>1, <3>2, <3>3
    <2> QED
      BY <2>1, <2>2, Zenon
  <1>7. \/ Reported("record_hash_mismatch")'
        \/ \A i \in DOMAIN lines' : lines'[i].record_hash = SV!ComputeHash(lines'[i])
    <2>1. Reported("record_hash_mismatch")' \/ r.record_hash = SV!ComputeHash(r)
      BY <1>1, Zenon DEF SV!RecordFindings, SV!RecordHashMismatch, Reported
    <2>2. Reported("record_hash_mismatch") => Reported("record_hash_mismatch")'
      BY <1>1, Zenon DEF Reported
    <2> QED
      BY <1>2, <1>3, <2>1, <2>2, SMTT(30) DEF LinesInv
  <1> QED
    BY <1>2, <1>4, <1>6, <1>7, Zenon DEF LinesInv

LEMMA LinesNext ==
    ASSUME GivenInv, LinesInv, [Next]_bundleVars
    PROVE  LinesInv'
  <1>1. findings \subseteq findings' /\ UNCHANGED <<scenario, container>>
    BY FindingsGrow, GivenKept, Zenon
  <1>2. CASE \E r \in Inputs.lines : VerifyRecord /\ SV!ReadRecord(r)
    <2>1. PICK r \in Inputs.lines : VerifyRecord /\ SV!ReadRecord(r)
      BY <1>2, Zenon
    <2>2. IsLine(r)
      BY <2>1, KeysAssumption, Zenon DEF GivenInv, Inputs
    <2>3. step' \notin BeforeChain /\ container'.scoped
      BY <1>1, <2>1, Zenon DEF VerifyRecord, BeforeChain
    <2> QED
      BY <2>1, <2>2, <2>3, LineRead
  <1>3. CASE ~\E r \in Inputs.lines : VerifyRecord /\ SV!ReadRecord(r)
    <2>1. UNCHANGED <<lines, hashes_by_seq>>
      BY <1>3, Zenon DEF Next, bundleVars, chainVars, RefuseArguments, AcceptArguments,
             VerifyContainer, VerifyIdentity, VerifyRecord, SV!ReadBadLine, EndChain,
             SV!StreamReadError, SV!EndOfStream, SkipStream, VerifyNextCheckpoint,
             EndCheckpoints, VerifyAnchor, EndAnchors, CrossCheckCoverage, Conclude
    <2>2. step' \in BeforeChain => step \in BeforeChain
      BY StepOrder, Zenon DEF BeforeChain
    <2>3. \A i, s : LastLine(i, s)' = LastLine(i, s)
      BY <2>1, Zenon DEF LastLine
    <2>4. Reported("record_hash_mismatch") => Reported("record_hash_mismatch")'
      BY <1>1, Zenon DEF Reported
    <2> QED
      BY <1>1, <2>1, <2>2, <2>3, <2>4, SMTT(30) DEF LinesInv, IsLine
  <1> QED
    BY <1>2, <1>3, Zenon

\* The hashes change while the stream is read, and only then.
LEMMA HashesKept ==
    ASSUME [Next]_bundleVars, ~VerifyRecord
    PROVE  hashes_by_seq' = hashes_by_seq /\ lines' = lines
  BY Zenon DEF Next, bundleVars, chainVars, RefuseArguments, AcceptArguments, VerifyContainer,
         VerifyIdentity, EndChain, SV!StreamReadError, SV!EndOfStream, SkipStream,
         VerifyNextCheckpoint, EndCheckpoints, VerifyAnchor, EndAnchors, CrossCheckCoverage,
         Conclude
-----------------------------------------------------------------------------
(* What is attested. *)

\* A size computed in a word of w values is the size of the range, unless it is
\* wrapped around to 0.
LEMMA RangeSize ==
    ASSUME NEW w \in Nat \ {0}, NEW from \in 0..(w - 1), NEW to \in 0..(w - 1), from <= to,
           NEW n, n # 0, n = (to - from + 1) % w
    PROVE  n = to - from + 1
  <1>1. CASE to - from + 1 = w
    BY <1>1
  <1>2. CASE to - from + 1 \in 0..(w - 1)
    BY <1>2
  <1> QED
    BY <1>1, <1>2

\* Where a number of a range is found in the list over that range.
LEMMA PlaceInRange ==
    ASSUME NEW from \in Nat, NEW to \in Nat, NEW s \in from..to
    PROVE  /\ s - from + 1 \in 1..(to - from + 1)
           /\ from + (s - from + 1) - 1 = s
           /\ from + (s - from + 1) = s + 1
           /\ s \in from..s
           /\ \A l \in Nat : to < l => s + 1 \in 1..l
  OBVIOUS

\* The bundle has the record that the recorder wrote at s, as far as its hash says.
WrittenAt(s) ==
    s + 1 \in DOMAIN Genuine.lines /\ hashes_by_seq[s] = Genuine.lines[s + 1].record_hash

\* A checkpoint that passes is over records of the bundle, and over genuine ones if
\* the root is from outside.
NotesSound ==
    \A bc \in Inputs.checkpoints :
       CV!Rejection(bc) = None /\ ~CV!RootMismatch(bc.note) /\ CV!FullyExported(bc.note) =>
          \A s \in CV!Seqs(bc.note) :
             s \in DOMAIN hashes_by_seq /\ (RootFromOutside => WrittenAt(s))

\* Attested records are in the bundle, and genuine if the root is from outside;
\* anchored records are attested.
AttestInv ==
    /\ attested_seqs \subseteq DOMAIN hashes_by_seq
    /\ RootFromOutside => \A s \in attested_seqs : WrittenAt(s)
    /\ anchored_seqs[StreamId] \subseteq attested_seqs
    /\ step \in BeforeChain \cup {"chain"} => attested_seqs = {}

\* A checkpoint attests the range of its note, or nothing.
LEMMA AttestsRange ==
    ASSUME NEW bc, CV!VerifyCheckpoint(bc)
    PROVE  \/ attested_seqs' = attested_seqs
           \/ /\ CV!Rejection(bc) = None /\ ~CV!RootMismatch(bc.note)
              /\ CV!FullyExported(bc.note)
              /\ attested_seqs' = attested_seqs \cup CV!Seqs(bc.note)
  <1>1. CASE CV!RejectCheckpoint(bc) \/ CV!RejectRoot(bc)
    BY <1>1, Zenon DEF CV!RejectCheckpoint, CV!RejectRoot
  <1>2. CASE CV!RejectCountersignature(bc) \/ CV!AcceptCheckpoint(bc)
    <2>1. CV!Rejection(bc) = None /\ ~CV!RootMismatch(bc.note) /\ CV!Attest(bc.note)
      BY <1>2, Zenon DEF CV!RejectCountersignature, CV!AcceptCheckpoint, CV!None, None
    <2> QED
      BY <2>1, Zenon DEF CV!Attest
  <1> QED
    BY <1>1, <1>2, Zenon DEF CV!VerifyCheckpoint

\* An anchor adds attested records only.
LEMMA AnchorsAttested ==
    ASSUME VerifyAnchor, anchored_seqs[StreamId] \subseteq attested_seqs
    PROVE  anchored_seqs'[StreamId] \subseteq attested_seqs
  <1>1. CASE \E batch : AV!AcceptBatch(batch)
    <2>1. PICK batch : AV!AcceptBatch(batch)
      BY <1>1, Zenon
    <2>2. StreamId \in AV!AnchorStreams
      BY DEF AV!AnchorStreams
    <2>3. anchored_seqs'[StreamId] = anchored_seqs[StreamId] \cup AV!Anchored(batch, StreamId)
      BY <2>1, <2>2, Zenon DEF AV!AcceptBatch
    <2>4. AV!Anchored(batch, StreamId) \subseteq attested_seqs
      BY Zenon DEF AV!Anchored
    <2> QED
      BY <2>3, <2>4, Zenon
  <1>2. CASE ~\E batch : AV!AcceptBatch(batch)
    <2>1. anchored_seqs' = anchored_seqs
      BY <1>2, Zenon DEF VerifyAnchor, AV!CheckBatch, AV!RejectBatch, AV!LeavePending, AV!CheckDay
    <2> QED
      BY <2>1, Zenon
  <1> QED
    BY <1>1, <1>2, Zenon

LEMMA AttestNext ==
    ASSUME AttestInv, step = "checkpoints" => NotesSound, [Next]_bundleVars
    PROVE  AttestInv'
  <1>1. UNCHANGED <<scenario, container, options, identity>>
    BY GivenKept, Zenon
  <1>2. RootFromOutside' = RootFromOutside
    BY <1>1, Zenon DEF RootFromOutside
  <1>3. step' \in BeforeChain \cup {"chain"} => step \in BeforeChain \cup {"chain"}
    BY StepOrder, Zenon DEF BeforeChain
  <1>4. CASE VerifyNextCheckpoint
    <2>1. PICK bc \in Inputs.checkpoints : CV!VerifyCheckpoint(bc)
      BY <1>4, Zenon DEF VerifyNextCheckpoint
    <2>2. /\ step = "checkpoints" /\ step' = step
          /\ hashes_by_seq' = hashes_by_seq /\ anchored_seqs' = anchored_seqs
      BY <1>4, Zenon DEF VerifyNextCheckpoint, chainVars, anchorVars
    <2>3. \A s : WrittenAt(s)' = WrittenAt(s)
      BY <2>2, Zenon DEF WrittenAt
    <2>4. \/ attested_seqs' = attested_seqs
          \/ /\ CV!Rejection(bc) = None /\ ~CV!RootMismatch(bc.note)
             /\ CV!FullyExported(bc.note)
             /\ attested_seqs' = attested_seqs \cup CV!Seqs(bc.note)
      BY <2>1, AttestsRange, Zenon
    <2>5. \A s \in attested_seqs' : /\ s \in DOMAIN hashes_by_seq
                                    /\ RootFromOutside => WrittenAt(s)
      <3>1. \A s \in attested_seqs : /\ s \in DOMAIN hashes_by_seq
                                     /\ RootFromOutside => WrittenAt(s)
        BY Zenon DEF AttestInv
      <3> QED
        BY <2>2, <2>4, <3>1, Zenon DEF NotesSound
    <2>6. attested_seqs \subseteq attested_seqs'
      BY <2>4, Zenon
    <2>7. step' \notin BeforeChain \cup {"chain"}
      BY <2>2, Zenon DEF BeforeChain
    <2> QED
      BY <1>2, <1>3, <1>1, <2>2, <2>3, <2>5, <2>6, <2>7, SMTT(30) DEF AttestInv
  <1>5. CASE VerifyAnchor
    <2>1. UNCHANGED <<hashes_by_seq, attested_seqs>>
      BY <1>5, Zenon DEF VerifyAnchor, chainVars, checkpointVars
    <2>2. \A s : WrittenAt(s)' = WrittenAt(s)
      BY <2>1, Zenon DEF WrittenAt
    <2> QED
      BY <1>1, <1>2, <1>3, <1>5, <2>1, <2>2, AnchorsAttested, SMTT(30) DEF AttestInv
  <1>6. CASE VerifyRecord
    <2>1. attested_seqs = {} /\ UNCHANGED <<attested_seqs, anchored_seqs>>
      BY <1>6, Zenon DEF VerifyRecord, checkpointVars, anchorVars, AttestInv
    <2> QED
      BY <1>1, <1>3, <2>1 DEF AttestInv
  <1>7. CASE ~VerifyNextCheckpoint /\ ~VerifyAnchor /\ ~VerifyRecord
    <2>1. UNCHANGED <<hashes_by_seq, attested_seqs, anchored_seqs>>
      <3>1. UNCHANGED <<attested_seqs, anchored_seqs>>
        BY <1>7, Zenon DEF Next, bundleVars, checkpointVars, anchorVars, RefuseArguments,
           AcceptArguments, VerifyContainer, VerifyIdentity, EndChain, SkipStream,
           EndCheckpoints, EndAnchors, CrossCheckCoverage, Conclude
      <3> QED
        BY <1>7, <3>1, HashesKept
    <2>2. \A s : WrittenAt(s)' = WrittenAt(s)
      BY <2>1, Zenon DEF WrittenAt
    <2> QED
      BY <1>1, <1>2, <1>3, <2>1, <2>2, SMTT(30) DEF AttestInv
  <1> QED
    BY <1>4, <1>5, <1>6, <1>7, SMTT(30)
-----------------------------------------------------------------------------
(* The extents that countersignatures state. *)

IsMark(option) == option = None \/ Get(option) \in Int

\* The extent a checkpoint's countersignature states, if any.
Mark(bc) ==
    IF bc.countersignature = None THEN None
    ELSE Get(bc.countersignature).note.stream_high_water_seq

\* Nothing was found that would rule out a pass.
Quiet == findings \cap (Errors \cup Warnings) = {}

\* The mark kept comes from a countersignature, and in a run without findings it
\* is the highest of all in the bundle.
ExtentInv ==
    /\ IsSeq(checked)
    /\ IsMark(countersigned_high_water)
    /\ countersigned_high_water # None => StatedExtents # {}
    /\ StatedExtents \subseteq Int
    /\ Quiet => \A m \in StatedExtents :
          countersigned_high_water # None /\ Get(countersigned_high_water) >= m
    /\ step = "checkpoints" => container.scoped
    /\ step \in BeforeChain \cup {"chain"} \/ ~container.scoped => StatedExtents = {}

\* What one checkpoint more states.
LEMMA StatedMore ==
    ASSUME IsSeq(checked), NEW bc, checked' = Append(checked, bc)
    PROVE  StatedExtents' = StatedExtents \cup IF Mark(bc) = None THEN {} ELSE {Get(Mark(bc))}
  <1>1. /\ IsSeq(checked') /\ Len(checked) \in Nat /\ Len(checked') = Len(checked) + 1
        /\ \A i \in 1..Len(checked) : checked'[i] = checked[i]
        /\ checked'[Len(checked) + 1] = bc
    BY AppendFacts
  <1>2. DOMAIN checked = 1..Len(checked) /\ DOMAIN checked' = 1..(Len(checked) + 1)
    BY <1>1 DEF IsSeq
  <1>3. \A m : m \in StatedExtents <=>
           \E i \in DOMAIN checked : Mark(checked[i]) # None /\ m = Get(Mark(checked[i]))
    BY Zenon DEF StatedExtents, Mark
  <1>4. \A m : m \in StatedExtents' <=>
           \E i \in DOMAIN checked' : Mark(checked'[i]) # None /\ m = Get(Mark(checked'[i]))
    BY Zenon DEF StatedExtents, Mark
  <1> HIDE DEF StatedExtents
  <1>5. \A m : m \in StatedExtents' <=> m \in StatedExtents \/ (Mark(bc) # None /\ m = Get(Mark(bc)))
    <2> TAKE m
    <2>1. ASSUME m \in StatedExtents'
          PROVE  m \in StatedExtents \/ (Mark(bc) # None /\ m = Get(Mark(bc)))
      <3>1. PICK i \in DOMAIN checked' : Mark(checked'[i]) # None /\ m = Get(Mark(checked'[i]))
        BY <1>4, <2>1, Zenon
      <3>2. i \in 1..Len(checked) \/ i = Len(checked) + 1
        BY <1>1, <1>2, SMTT(30)
      <3> QED
        BY <1>1, <1>2, <1>3, <3>1, <3>2, SMTT(30)
    <2>2. ASSUME m \in StatedExtents PROVE m \in StatedExtents'
      <3>1. PICK i \in DOMAIN checked : Mark(checked[i]) # None /\ m = Get(Mark(checked[i]))
        BY <1>3, <2>2, Zenon
      <3>2. i \in DOMAIN checked' /\ checked'[i] = checked[i]
        BY <1>1, <1>2
      <3> QED
        BY <1>4, <3>1, <3>2
    <2>3. ASSUME Mark(bc) # None, m = Get(Mark(bc)) PROVE m \in StatedExtents'
      <3>1. Len(checked) + 1 \in DOMAIN checked'
        BY <1>1, <1>2
      <3> QED
        BY <1>1, <1>4, <2>3, <3>1, SMTT(30)
    <2> QED
      BY <2>1, <2>2, <2>3, Zenon
  <1> QED
    BY <1>5, Zenon

\* MaxWith keeps the larger one.
LEMMA MaxKept ==
    ASSUME NEW option, IsMark(option), NEW n \in Int
    PROVE  /\ CV!MaxWith(option, n) # None
           /\ Get(CV!MaxWith(option, n)) \in Int
           /\ Get(CV!MaxWith(option, n)) >= n
           /\ option # None => Get(CV!MaxWith(option, n)) >= Get(option)
  BY SMTT(30) DEF CV!MaxWith, CV!Some, CV!None, CV!Get, IsMark, None, Get

\* A checkpoint raises the mark to what it states, or leaves a finding.
LEMMA MarkRead ==
    ASSUME GivenInv, NEW bc \in Inputs.checkpoints, CV!VerifyCheckpoint(bc)
    PROVE  /\ IsMark(Mark(bc))
           /\ \/ countersigned_high_water' = countersigned_high_water
              \/ /\ Mark(bc) # None
                 /\ countersigned_high_water'
                       = CV!MaxWith(countersigned_high_water, Get(Mark(bc)))
           /\ Quiet' /\ Mark(bc) # None =>
                 countersigned_high_water' = CV!MaxWith(countersigned_high_water, Get(Mark(bc)))
  <1> USE DEF CV!None, CV!Some, CV!Get, None, Get
  <1>1. IsMark(Mark(bc))
    BY RangesAssumption DEF GivenInv, Inputs, IsMark, Mark
  <1>2. CASE CV!RejectCheckpoint(bc)
    <2>1. Get(CV!Rejection(bc)) \in CV!ErrorClasses
      BY <1>2, Zenon DEF CV!RejectCheckpoint, CV!Rejection, CV!ErrorClasses
    <2>2. ~Quiet'
      BY <1>2, <2>1, Zenon DEF CV!RejectCheckpoint, Quiet, Errors
    <2> QED
      BY <1>1, <1>2, <2>2 DEF CV!RejectCheckpoint
  <1>3. CASE CV!RejectRoot(bc)
    <2>1. ~Quiet'
      BY <1>3, Zenon DEF CV!RejectRoot, CV!NoteFindings, Quiet, Errors, CV!ErrorClasses
    <2> QED
      BY <1>1, <1>3, <2>1 DEF CV!RejectRoot
  <1>4. CASE CV!RejectCountersignature(bc)
    <2>1. ~Quiet'
      BY <1>4, Zenon DEF CV!RejectCountersignature, Quiet, Errors, CV!ErrorClasses
    <2> QED
      BY <1>1, <1>4, <2>1, Zenon DEF CV!RejectCountersignature
  <1>5. CASE CV!AcceptCheckpoint(bc)
    <2>1. /\ countersigned_high_water' = CV!Raised(CV!AssertedHighWater(bc))
          /\ findings' = findings \cup CV!NoteFindings(bc.note) \cup CV!CountersignatureFindings(bc)
      BY <1>5, Zenon DEF CV!AcceptCheckpoint
    <2>2. \/ CV!AssertedHighWater(bc) = None
          \/ Mark(bc) # None /\ CV!AssertedHighWater(bc) = Mark(bc)
      BY Zenon DEF CV!AssertedHighWater, Mark
    <2>3. Quiet' /\ Mark(bc) # None => CV!AssertedHighWater(bc) = Mark(bc)
      <3>1. Quiet' => "countersignature_unverifiable" \notin CV!CountersignatureFindings(bc)
        BY <2>1, Zenon DEF Quiet, Warnings
      <3> QED
        BY <3>1, Zenon DEF CV!AssertedHighWater, Mark, CV!CountersignatureFindings
    <2> QED
      BY <1>1, <2>1, <2>2, <2>3, Zenon DEF CV!Raised
  <1> QED
    BY <1>2, <1>3, <1>4, <1>5, SMTT(30) DEF CV!VerifyCheckpoint

LEMMA ExtentNext ==
    ASSUME GivenInv, ExtentInv, [Next]_bundleVars
    PROVE  ExtentInv'
  <1>1. UNCHANGED <<container>> /\ findings \subseteq findings'
    BY GivenKept, FindingsGrow, Zenon
  <1>2. Quiet' => Quiet
    BY <1>1, Zenon DEF Quiet, Errors, Warnings
  <1>3. /\ step' \in BeforeChain \cup {"chain"} => step \in BeforeChain \cup {"chain"}
        /\ step' = "checkpoints" => container.scoped
    BY StepOrder, Zenon DEF BeforeChain, ExtentInv
  <1>4. CASE VerifyNextCheckpoint
    <2>1. PICK bc \in Inputs.checkpoints : CV!VerifyCheckpoint(bc)
      BY <1>4, Zenon DEF VerifyNextCheckpoint
    <2>2. step' \notin BeforeChain \cup {"chain"} /\ container.scoped
      BY <1>4, Zenon DEF VerifyNextCheckpoint, BeforeChain, ExtentInv
    <2>3. checked' = Append(checked, bc)
      BY <2>1, Zenon DEF CV!VerifyCheckpoint
    <2>4. IsSeq(checked')
      BY <2>3, AppendFacts, Zenon DEF ExtentInv
    <2>5. StatedExtents' = StatedExtents \cup IF Mark(bc) = None THEN {} ELSE {Get(Mark(bc))}
      BY <2>3, StatedMore, Zenon DEF ExtentInv
    <2> HIDE DEF StatedExtents
    <2>6. /\ IsMark(Mark(bc)) /\ IsMark(countersigned_high_water)
          /\ \/ countersigned_high_water' = countersigned_high_water
             \/ /\ Mark(bc) # None
                /\ countersigned_high_water'
                      = CV!MaxWith(countersigned_high_water, Get(Mark(bc)))
          /\ Quiet' /\ Mark(bc) # None =>
                countersigned_high_water' = CV!MaxWith(countersigned_high_water, Get(Mark(bc)))
      BY <2>1, MarkRead, Zenon DEF ExtentInv
    <2>7. Mark(bc) # None =>
             LET m == CV!MaxWith(countersigned_high_water, Get(Mark(bc)))
             IN  /\ m # None /\ Get(m) \in Int /\ Get(m) >= Get(Mark(bc))
                 /\ countersigned_high_water # None => Get(m) >= Get(countersigned_high_water)
      BY <2>6, MaxKept, Zenon DEF IsMark
    <2>8. IsMark(countersigned_high_water')
      BY <2>6, <2>7, Zenon DEF IsMark
    <2>9. countersigned_high_water' # None => StatedExtents' # {}
      BY <2>5, <2>6, Zenon DEF ExtentInv
    <2>10. StatedExtents' \subseteq Int
      BY <2>5, <2>6, Zenon DEF ExtentInv, IsMark
    <2>11. ASSUME Quiet', NEW m \in StatedExtents'
           PROVE  countersigned_high_water' # None /\ Get(countersigned_high_water') >= m
      <3>1. CASE m \in StatedExtents
        <4>1. countersigned_high_water # None /\ Get(countersigned_high_water) >= m /\ m \in Int
          BY <1>2, <2>11, <3>1, Zenon DEF ExtentInv
        <4> QED
          BY <2>6, <2>7, <4>1 DEF IsMark
      <3>2. CASE Mark(bc) # None /\ m = Get(Mark(bc))
        BY <2>6, <2>7, <2>11, <3>2, SMTT(30)
      <3> QED
        BY <2>5, <3>1, <3>2, SMTT(30)
    <2> QED
      BY <1>1, <1>3, <2>2, <2>4, <2>8, <2>9, <2>10, <2>11, SMTT(30) DEF ExtentInv
  <1>5. CASE ~VerifyNextCheckpoint
    <2>1. UNCHANGED <<checked, countersigned_high_water>>
      BY <1>5, Zenon DEF Next, bundleVars, checkpointVars, RefuseArguments, AcceptArguments,
         VerifyContainer, VerifyIdentity, VerifyRecord, EndChain, SkipStream, EndCheckpoints,
         VerifyAnchor, EndAnchors, CrossCheckCoverage, Conclude
    <2>2. StatedExtents' = StatedExtents
      BY <2>1, Zenon DEF StatedExtents
    <2> HIDE DEF StatedExtents
    <2> QED
      BY <1>1, <1>2, <1>3, <2>1, <2>2, SMTT(30) DEF ExtentInv, IsMark
  <1> QED
    BY <1>4, <1>5, Zenon

\* When the verdict is due, the coverage cross-checks have been made on what is
\* still the state of the stream.
CoverInv ==
    step = "report" /\ container.scoped =>
       CV!CoverageFindings(options.expect_high_water) \subseteq findings

LEMMA CoverNext ==
    ASSUME ReadInv, CoverInv, [Next]_bundleVars
    PROVE  CoverInv'
  <1>1. CASE CrossCheckCoverage
    <2>1. /\ UNCHANGED <<container, options, hashes_by_seq, attested_seqs, checkpoint_links,
                         checkpoint_note_hashes, countersigned_high_water>>
          /\ container.scoped =>
                CV!CoverageFindings(options.expect_high_water) \subseteq findings'
      BY <1>1, Zenon DEF CrossCheckCoverage, fixedVars, chainVars, checkpointVars
    <2>2. CV!CoverageFindings(options.expect_high_water)'
             = CV!CoverageFindings(options.expect_high_water)
      BY <2>1, Zenon DEF CV!CoverageFindings, CV!LinksResolve, CV!Truncated, CV!RequiredHighWater
    <2> QED
      BY <2>1, <2>2, Zenon DEF CoverInv
  <1>2. CASE UNCHANGED bundleVars
    <2>1. /\ UNCHANGED <<container, options, hashes_by_seq, attested_seqs, checkpoint_links,
                         checkpoint_note_hashes, countersigned_high_water, step, findings>>
      BY <1>2, Zenon DEF bundleVars, fixedVars, chainVars, checkpointVars
    <2>2. CV!CoverageFindings(options.expect_high_water)'
             = CV!CoverageFindings(options.expect_high_water)
      BY <2>1, Zenon DEF CV!CoverageFindings, CV!LinksResolve, CV!Truncated, CV!RequiredHighWater
    <2> QED
      BY <2>1, <2>2, Zenon DEF CoverInv
  <1>3. CASE Next /\ ~CrossCheckCoverage
    <2>1. step' # "report"
      BY <1>3, StepOrder, OtherSteps, IdentitySteps, Zenon
    <2> QED
      BY <2>1, Zenon DEF CoverInv
  <1> QED
    BY <1>1, <1>2, <1>3
-----------------------------------------------------------------------------
(* The findings. *)

\* The findings the program may report.
Known ==
    Errors \cup Warnings \cup
       {"checkpoint_range_not_fully_exported", "not_countersigned", "anchor_verified",
        "anchor_checkpoint_not_in_export", "qts_verified", "segment_no_clean_end"}

\* Findings are of the known classes, and the program ends with an exit code.
KnownInv == findings \subseteq Known /\ (step = "exited" => exit # None)

LEMMA KnownParts ==
    /\ IdentityErrors \subseteq Known /\ IdentityWarnings \subseteq Known
    /\ SV!Classes \subseteq Known /\ CV!ErrorClasses \subseteq Known
    /\ AV!AnchorErrors \subseteq Known
    /\ {"schema_version_unknown", "unlisted_entry", "content_hash_mismatch",
        "checkpoints_missing"} \subseteq Known
    /\ {"countersignature_unverifiable", "checkpoint_range_not_fully_exported",
        "not_countersigned"} \subseteq Known
    /\ {"anchor_pending", "anchor_verified", "anchor_checkpoint_not_in_export",
        "qts_verified"} \subseteq Known
    /\ {"unattested_tail", "tail_completeness_unproven", "coverage_gaps_recorded",
        "segment_no_clean_end"} \subseteq Known
  <1>1. SV!Classes \subseteq {c \in SV!Classes : SV!Severity(c) = "Error"} \cup {"segment_break"}
    BY Zenon DEF SV!Severity
  <1> QED
    BY <1>1, Zenon DEF Known, Errors, Warnings

\* The findings of the parts.
LEMMA RecordKnown ==
    ASSUME NEW r
    PROVE  SV!RecordFindings(r) \subseteq SV!Classes
  BY DEF SV!RecordFindings, SV!FirstFindings, SV!NextFindings, SV!Classes

LEMMA CheckpointKnown ==
    ASSUME NEW bc, CV!VerifyCheckpoint(bc), findings \subseteq Known
    PROVE  findings' \subseteq Known
  <1>1. CV!NoteFindings(bc.note) \subseteq
           CV!ErrorClasses \cup {"checkpoint_range_not_fully_exported"}
    BY Zenon DEF CV!NoteFindings, CV!ErrorClasses
  <1>2. CASE CV!RejectCheckpoint(bc)
    <2>1. CV!Get(CV!Rejection(bc)) \in CV!ErrorClasses
      BY <1>2, Zenon DEF CV!RejectCheckpoint, CV!Rejection, CV!ErrorClasses, CV!Some, CV!None, CV!Get
    <2> QED
      BY <1>2, <2>1, KnownParts, Zenon DEF CV!RejectCheckpoint
  <1>3. CASE CV!RejectRoot(bc)
    BY <1>1, <1>3, KnownParts, SMTT(30) DEF CV!RejectRoot
  <1>4. CASE CV!RejectCountersignature(bc)
    <2>1. "countersignature_invalid" \in CV!ErrorClasses
      BY Zenon DEF CV!ErrorClasses
    <2> QED
      BY <1>1, <1>4, <2>1, KnownParts DEF CV!RejectCountersignature
  <1>5. CASE CV!AcceptCheckpoint(bc)
    <2>1. CV!CountersignatureFindings(bc) \subseteq
             {"not_countersigned", "countersignature_unverifiable"}
      BY Zenon DEF CV!CountersignatureFindings
    <2> QED
      BY <1>1, <1>5, <2>1, KnownParts, SMTT(30) DEF CV!AcceptCheckpoint
  <1> QED
    BY <1>2, <1>3, <1>4, <1>5, Zenon DEF CV!VerifyCheckpoint

LEMMA AnchorKnown ==
    ASSUME VerifyAnchor, findings \subseteq Known
    PROVE  findings' \subseteq Known
  <1>1. CASE \E batch : AV!CheckBatch(batch)
    <2>1. PICK batch : AV!CheckBatch(batch)
      BY <1>1, Zenon
    <2>2. AV!InclusionFindings(batch) \subseteq
             AV!AnchorErrors \cup {"anchor_checkpoint_not_in_export"}
      BY Zenon DEF AV!InclusionFindings, AV!AnchorErrors
    <2>3. AV!TokenFindings(batch) \subseteq
             AV!AnchorErrors \cup {"anchor_pending", "anchor_verified"}
      BY Zenon DEF AV!TokenFindings, AV!AnchorErrors
    <2>4. {"anchor_invalid", "anchor_digest_binding_broken"} \subseteq AV!AnchorErrors
      BY Zenon DEF AV!AnchorErrors
    <2> QED
      BY <2>1, <2>2, <2>3, <2>4, KnownParts, SMTT(30)
      DEF AV!CheckBatch, AV!RejectBatch, AV!LeavePending, AV!AcceptBatch
  <1>2. CASE \E day : AV!CheckDay(day)
    <2>1. PICK day : AV!CheckDay(day)
      BY <1>2, Zenon
    <2>2. AV!DaySignatureFindings(day) \subseteq AV!AnchorErrors
      BY Zenon DEF AV!DaySignatureFindings, AV!AnchorErrors
    <2>3. AV!QtsFindings(day) \subseteq AV!AnchorErrors \cup {"qts_verified"}
      BY Zenon DEF AV!QtsFindings, AV!AnchorErrors
    <2>4. {"daily_root_invalid", "daily_root_mismatch"} \subseteq AV!AnchorErrors
      BY Zenon DEF AV!AnchorErrors
    <2> QED
      BY <2>1, <2>2, <2>3, <2>4, KnownParts, SMTT(30) DEF AV!CheckDay, AV!RejectDay, AV!AcceptDay
  <1> QED
    BY <1>1, <1>2, SMTT(30) DEF VerifyAnchor

LEMMA IdentityKnown ==
    ASSUME IdentityNext, findings \subseteq Known
    PROVE  findings' \subseteq Known
  <1>1. CertFindings \subseteq IdentityErrors \cup IdentityWarnings
    BY Zenon DEF CertFindings, IdentityErrors, IdentityWarnings
  <1>2. \A e : KeyFindings(e) \subseteq IdentityErrors \cup IdentityWarnings
    BY Zenon DEF KeyFindings, IdentityErrors, IdentityWarnings
  <1>3. \A l : RevocationFindings(l) \subseteq IdentityErrors \cup IdentityWarnings
    BY Zenon DEF RevocationFindings, IdentityErrors, IdentityWarnings
  <1>4. {"root_bundle_pinned", "no_trust_root", "cert_unvalidated", "console_key_invalid"}
           \subseteq IdentityErrors \cup IdentityWarnings
    BY Zenon DEF IdentityErrors, IdentityWarnings
  <1>5. findings' \subseteq findings \cup IdentityErrors \cup IdentityWarnings
    <2>1. CASE SelectRoots
      <3>1. \/ findings' = findings
            \/ findings' = findings \cup {"root_bundle_pinned"}
            \/ findings' = findings \cup {"no_trust_root"}
        BY <2>1, Zenon DEF SelectRoots
      <3> QED
        BY <1>4, <3>1
    <2>4. CASE BeginWalk \/ GiveUpWalk
      <3>1. findings' = findings \/ findings' = findings \cup {"cert_unvalidated"}
        BY <2>4, Zenon DEF BeginWalk, GiveUpWalk
      <3> QED
        BY <1>4, <3>1
    <2>5. CASE OverrideConsoleKey
      BY <1>4, <2>5, Zenon DEF OverrideConsoleKey
    <2>2. CASE ListCerts \/ ReadConsoleKey \/ CheckRevocations
      BY <1>1, <1>2, <1>3, <2>2, Zenon DEF ListCerts, ReadConsoleKey, CheckRevocations
    <2>3. CASE ReachRoot \/ ClimbToIssuer \/ EndWalks \/ EndConsoleKeys
      BY <2>3, Zenon DEF ReachRoot, ClimbToIssuer, EndWalks, EndConsoleKeys
    <2> QED
      BY <2>1, <2>2, <2>3, <2>4, <2>5, Zenon DEF IdentityNext
  <1> QED
    BY <1>5, KnownParts, Zenon

LEMMA KnownNext ==
    ASSUME ReadInv, KnownInv, [Next]_bundleVars
    PROVE  KnownInv'
  <1>1. findings' \subseteq Known
    <2>0. findings \subseteq Known
      BY Zenon DEF KnownInv
    <2>1. CASE RefuseArguments \/ AcceptArguments \/ SkipStream \/ EndAnchors \/ Conclude
               \/ UNCHANGED bundleVars
      BY <2>0, <2>1 DEF RefuseArguments, AcceptArguments, SkipStream, EndAnchors, Conclude,
                        bundleVars
    <2>2. CASE VerifyContainer \/ EndCheckpoints
      <3>1. container.contents \in {"listed", "unlisted", "altered"}
        BY Zenon DEF ReadInv
      <3> QED
        BY <2>0, <2>2, <3>1, KnownParts, SMTT(30) DEF VerifyContainer, EndCheckpoints
    <2>3. CASE VerifyIdentity
      BY <2>0, <2>3, IdentityKnown, SMTT(30) DEF VerifyIdentity
    <2>4. CASE VerifyRecord \/ EndChain
      <3>1. {"record_parse_error", "record_invalid", "stream_read_error"} \subseteq SV!Classes
        BY Zenon DEF SV!Classes
      <3>2. \/ findings' = findings
            \/ \E class \in SV!Classes : findings' = findings \cup {class}
            \/ \E r : findings' = findings \cup SV!RecordFindings(r)
        BY <2>4, <3>1, Zenon DEF VerifyRecord, EndChain, SV!ReadBadLine, SV!StreamReadError,
                          SV!EndOfStream, SV!ReadRecord, SV!VerifyNext
      <3> QED
        BY <2>0, <3>2, RecordKnown, KnownParts, SMTT(30)
    <2>5. CASE VerifyNextCheckpoint
      BY <2>0, <2>5, CheckpointKnown, SMTT(30) DEF VerifyNextCheckpoint
    <2>6. CASE VerifyAnchor
      BY <2>0, <2>6, AnchorKnown, SMTT(30)
    <2>7. CASE CrossCheckCoverage
      <3>1. CV!CoverageFindings(options.expect_high_water) \subseteq
               CV!ErrorClasses \cup {"unattested_tail", "tail_completeness_unproven"}
        BY Zenon DEF CV!CoverageFindings, CV!ErrorClasses
      <3> QED
        BY <2>0, <2>7, <3>1, KnownParts, SMTT(30) DEF CrossCheckCoverage
    <2> QED
      BY <2>1, <2>2, <2>3, <2>4, <2>5, <2>6, <2>7, SMTT(30) DEF Next
  <1>2. step' = "exited" => exit' # None
    <2>1. CASE RefuseArguments \/ Conclude
      BY <2>1 DEF RefuseArguments, Conclude, Some, None
    <2>2. CASE ~RefuseArguments /\ ~Conclude
      <3>1. exit' = exit
        BY <2>2, Zenon DEF Next, bundleVars, AcceptArguments, VerifyContainer, VerifyIdentity,
           VerifyRecord, EndChain, SkipStream, VerifyNextCheckpoint, EndCheckpoints,
           VerifyAnchor, EndAnchors, CrossCheckCoverage
      <3>2. step' = "exited" => step = "exited"
        BY <2>2, StepOrder, Zenon
      <3> QED
        BY <3>1, <3>2 DEF KnownInv
    <2> QED
      BY <2>1, <2>2, Zenon
  <1> QED
    BY <1>1, <1>2 DEF KnownInv, Known, Errors, Warnings
-----------------------------------------------------------------------------
(* The parts together. *)

\* What holds of the stream, the bundle and the report in every state.
StreamInv ==
    /\ GivenInv /\ ReadInv /\ RootsInv /\ LinesInv /\ AttestInv /\ ExtentInv /\ CoverInv
    /\ KnownInv

LEMMA StreamInit == Init => StreamInv
  <1> SUFFICES ASSUME Init PROVE StreamInv
    BY Zenon
  <1>1. /\ step = "arguments" /\ exit = None /\ findings = {} /\ attested_seqs = {}
        /\ anchored_seqs[StreamId] = {} /\ checked = <<>> /\ countersigned_high_water = None
    BY Zenon DEF Init, CV!CheckpointsInit, CV!None, None
  <1>2. RootsInv /\ AttestInv /\ CoverInv /\ KnownInv
    BY <1>1, Zenon DEF RootsInv, AttestInv, CoverInv, KnownInv, AfterRoots, AfterContainer
  <1>3. StatedExtents = {}
    BY <1>1 DEF StatedExtents
  <1>4. IsSeq(checked)
    BY <1>1 DEF IsSeq
  <1>5. ExtentInv
    BY <1>1, <1>3, <1>4, SMTT(30) DEF ExtentInv, IsMark
  <1>6. GivenInv /\ ReadInv /\ LinesInv
    BY ReadInit, LinesInit, Zenon DEF Init, GivenInv
  <1> QED
    BY <1>2, <1>5, <1>6, Zenon DEF StreamInv

LEMMA StreamNext ==
    ASSUME StreamInv, step = "checkpoints" => NotesSound, [Next]_bundleVars
    PROVE  StreamInv'
  <1>1. GivenInv /\ GivenInv'
    BY GivenKept, Zenon DEF StreamInv, GivenInv, Inputs
  <1>2. ReadInv /\ ReadInv'
    BY ReadNext, Zenon DEF StreamInv
  <1>3. RootsInv' /\ LinesInv' /\ AttestInv'
    BY <1>1, RootsNext, LinesNext, AttestNext, Zenon DEF StreamInv
  <1>4. ExtentInv' /\ CoverInv' /\ KnownInv'
    BY <1>1, <1>2, ExtentNext, CoverNext, KnownNext, Zenon DEF StreamInv
  <1> QED
    BY <1>1, <1>2, <1>3, <1>4, Zenon DEF StreamInv

-----------------------------------------------------------------------------
(* The verdict keeps the promise of the exit code. *)

\* When the verdict is due, records without attestation have been reported.
TailCounted ==
    step = "report" /\ container.scoped /\ ~Reported("unattested_tail") =>
       attested_seqs = DOMAIN hashes_by_seq

LEMMA VerdictStarts == Init => V!VerdictInit
  <1> SUFFICES ASSUME Init PROVE V!VerdictInit
    BY Zenon
  <1>1. /\ exit = None /\ hashes_by_seq = <<>> /\ attested_seqs = {} /\ checked = <<>>
        /\ anchored_seqs[StreamId] = {}
    BY Zenon DEF Init, SV!VerifierInit, CV!CheckpointsInit
  <1>2. container.scoped \in BOOLEAN
    BY ReadInit, Zenon DEF ReadInv
  <1>3. RecordsRead = <<>>
    BY <1>1 DEF RecordsRead
  <1>4. StatedExtents = {}
    BY <1>1 DEF StatedExtents
  <1>5. RootFromOutside \in BOOLEAN
    BY Zenon DEF RootFromOutside
  <1> QED
    BY <1>1, <1>2, <1>3, <1>4, <1>5, SMTT(30) DEF V!VerdictInit, V!None, None

LEMMA Ranked ==
    /\ {"truncation_detected", "record_hash_mismatch", "no_trust_root"} \subseteq Errors
    /\ {"unattested_tail", "tail_completeness_unproven", "root_bundle_pinned"}
          \subseteq Warnings
  <1>1. "record_hash_mismatch" \in SV!Classes /\ SV!Severity("record_hash_mismatch") = "Error"
    BY Zenon DEF SV!Classes, SV!Severity
  <1> QED
    BY <1>1, Zenon DEF Errors, Warnings, CV!ErrorClasses, IdentityErrors, IdentityWarnings

\* Two records with the same digest are the same, if each has its own.
LEMMA SameRecord ==
    ASSUME NEW r, NEW q, IsLine(r), IsLine(q), r.record_hash = q.record_hash,
           r.record_hash = SV!ComputeHash(r), q.record_hash = SV!ComputeHash(q)
    PROVE  r = q
  <1>1. ASSUME NEW x
        PROVE  LET h == SV!ComputeHash(x)
               IN  /\ h[2] = x.stream_id /\ h[3] = x.segment_id /\ h[4] = x.seq
                   /\ h[5] = x.ts_wall /\ h[6] = x.ts_mono_ns /\ h[7] = x.record_type
                   /\ h[8] = x.content /\ h[9] = x.prev_hash
    BY Zenon DEF SV!ComputeHash
  <1>2. SV!ComputeHash(r) = SV!ComputeHash(q)
    BY Zenon
  <1>3. /\ r.stream_id = q.stream_id /\ r.segment_id = q.segment_id /\ r.seq = q.seq
        /\ r.ts_wall = q.ts_wall /\ r.ts_mono_ns = q.ts_mono_ns
        /\ r.record_type = q.record_type /\ r.content = q.content /\ r.prev_hash = q.prev_hash
    BY <1>1, <1>2
  <1> QED
    BY <1>3, Zenon DEF IsLine

\* Without an error, an attested record is the one the recorder wrote.
LEMMA AttestedGenuine ==
    ASSUME LinesInv, AttestInv, RootFromOutside, findings \cap Errors = {}
    PROVE  V!AttestedWritten
  <1> SUFFICES ASSUME NEW s \in attested_seqs
               PROVE  /\ s \in DOMAIN RecordsRead
                      /\ s \in {Genuine.lines[i].seq : i \in DOMAIN Genuine.lines}
                      /\ RecordsRead[s] = Genuine.lines[s + 1]
    BY Zenon DEF V!AttestedWritten
  <1>1. s \in DOMAIN hashes_by_seq /\ WrittenAt(s)
    BY Zenon DEF AttestInv
  <1>2. PICK i : LastLine(i, s) /\ hashes_by_seq[s] = lines[i].record_hash
    BY <1>1, Zenon DEF LinesInv
  <1>3. DOMAIN RecordsRead = DOMAIN hashes_by_seq
    BY Zenon DEF RecordsRead
  <1>4. RecordsRead[s] = lines[i]
    <2> DEFINE at == {j \in DOMAIN lines : lines[j].seq = s}
    <2>1. RecordsRead[s] = lines[CHOOSE j \in at : \A k \in at : k <= j]
      BY <1>1, Zenon DEF RecordsRead
    <2>2. i \in at /\ \A k \in at : k <= i
      BY <1>2, Zenon DEF LastLine
    <2>3. at \subseteq Int
      BY DEF LinesInv, IsSeq
    <2> HIDE DEF at
    <2>4. (CHOOSE j \in at : \A k \in at : k <= j) = i
      <3>1. PICK j : j = CHOOSE x \in at : \A k \in at : k <= x
        BY Zenon
      <3>2. j \in at /\ \A k \in at : k <= j
        BY <2>2, <3>1
      <3> QED
        BY <2>2, <2>3, <3>1, <3>2
    <2> QED
      BY <2>1, <2>4, Zenon
  <1>5. IsLine(lines[i]) /\ lines[i].seq = s /\ lines[i].record_hash = SV!ComputeHash(lines[i])
    BY <1>2, Ranked DEF LinesInv, LastLine, Reported
  <1>6. /\ IsLine(Genuine.lines[s + 1]) /\ Genuine.lines[s + 1].seq = (s + 1) - 1
        /\ Genuine.lines[s + 1].record_hash = SV!ComputeHash(Genuine.lines[s + 1])
    BY <1>1, KeysAssumption, Zenon DEF WrittenAt
  <1>7. lines[i] = Genuine.lines[s + 1]
    BY <1>1, <1>2, <1>5, <1>6, SameRecord, Zenon DEF WrittenAt
  <1>8. s \in Nat /\ (s + 1) - 1 = s
    BY <1>5 DEF IsLine
  <1> QED
    BY <1>1, <1>3, <1>4, <1>6, <1>7, <1>8, Zenon DEF WrittenAt

\* Without an error, the stream reaches every extent that is required of it.
LEMMA ReachesRequired ==
    ASSUME LinesInv, ExtentInv, CoverInv, GivenInv, step = "report", container.scoped,
           "truncation_detected" \notin findings
    PROVE  /\ options.expect_high_water # None =>
                 V!ReachesTo(Get(options.expect_high_water))
           /\ \A m \in Int :
                 /\ countersigned_high_water # None
                 /\ Get(countersigned_high_water) >= m
                 => V!ReachesTo(m)
  <1> DEFINE pinned   == options.expect_high_water
             required == CV!RequiredHighWater(pinned)
  <1>1. ~CV!Truncated(pinned)
    BY Zenon DEF CoverInv, CV!CoverageFindings
  <1>2. IsMark(countersigned_high_water) /\ IsMark(pinned)
    BY RangesAssumption DEF ExtentInv, GivenInv, Inputs, IsMark
  <1>3. DOMAIN RecordsRead = DOMAIN hashes_by_seq /\ DOMAIN hashes_by_seq \subseteq Int
    BY DEF RecordsRead, LinesInv, LastLine, IsLine
  <1>4. /\ pinned # None =>
              required # None /\ Get(required) \in Int /\ Get(required) >= Get(pinned)
        /\ countersigned_high_water # None =>
              /\ required # None /\ Get(required) \in Int
              /\ Get(required) >= Get(countersigned_high_water)
    <2>1. CASE pinned = None
      BY <1>2, <2>1 DEF CV!RequiredHighWater, CV!None, None, IsMark
    <2>2. CASE pinned # None
      <3>1. required = CV!MaxWith(countersigned_high_water, Get(pinned)) /\ Get(pinned) \in Int
        BY <1>2, <2>2, Zenon DEF CV!RequiredHighWater, CV!None, None, CV!Get, Get, IsMark
      <3> HIDE DEF required, pinned
      <3> QED
        BY <1>2, <3>1, MaxKept, Zenon
    <2> QED
      BY <2>1, <2>2, Zenon
  <1>5. required # None => \E s \in DOMAIN hashes_by_seq : ~(s < Get(required))
    BY <1>1, Zenon DEF CV!Truncated, CV!None, None, CV!Get, Get
  <1> HIDE DEF required, pinned
  <1>6. \A m \in Int : required # None /\ Get(required) \in Int /\ Get(required) >= m =>
           V!ReachesTo(m)
    BY <1>3, <1>5 DEF V!ReachesTo
  <1>7. pinned # None => V!ReachesTo(Get(pinned))
    BY <1>2, <1>4, <1>6 DEF IsMark
  <1>8. ASSUME NEW m \in Int, countersigned_high_water # None,
               Get(countersigned_high_water) >= m
        PROVE  V!ReachesTo(m)
    <2>1. Get(countersigned_high_water) \in Int
      BY <1>2, <1>8, Zenon DEF IsMark
    <2>2. required # None /\ Get(required) \in Int /\ Get(required) >= m
      BY <1>4, <1>8, <2>1, SMTT(30)
    <2> QED
      BY <1>6, <2>2, Zenon
  <1> QED
    BY <1>7, <1>8, Zenon DEF pinned

\* When the verdict is due, a report without errors keeps the weaker promise.
LEMMA ErrorFreePromise ==
    ASSUME StreamInv, step = "report", findings \cap Errors = {}
    PROVE  V!PassWithFindingsPromise
  <1>1. RootFromOutside => V!AttestedWritten
    BY AttestedGenuine, Zenon DEF StreamInv
  <1>2. anchored_seqs[StreamId] \subseteq attested_seqs
    BY Zenon DEF StreamInv, AttestInv
  <1>3. container.scoped /\ options.expect_high_water # None =>
           V!ReachesTo(Get(options.expect_high_water))
    BY ReachesRequired, Ranked, Zenon DEF StreamInv
  <1> QED
    BY <1>1, <1>2, <1>3 DEF V!PassWithFindingsPromise, V!None, None, V!Get, Get

\* One without errors and warnings keeps the promise of a pass.
LEMMA QuietPromise ==
    ASSUME StreamInv, TailCounted, step = "report", Quiet
    PROVE  V!PassPromise
  <1>1. findings \cap Errors = {} /\ findings \cap Warnings = {}
    BY Zenon DEF Quiet
  <1>2. RootFromOutside
    BY <1>1, Ranked, Zenon DEF StreamInv, RootsInv, Ran, AfterRoots, AfterContainer, Reported
  <1>3. V!AttestedWritten
    BY <1>1, <1>2, AttestedGenuine DEF StreamInv
  <1>4. /\ DOMAIN RecordsRead = DOMAIN hashes_by_seq
        /\ attested_seqs \subseteq DOMAIN hashes_by_seq
        /\ anchored_seqs[StreamId] \subseteq attested_seqs
        /\ ~container.scoped => DOMAIN hashes_by_seq = {} /\ StatedExtents = {}
    BY Zenon DEF RecordsRead, StreamInv, AttestInv, LinesInv, ExtentInv
  <1>5. container.scoped => CV!CoverageFindings(options.expect_high_water) \subseteq findings
    BY Zenon DEF StreamInv, CoverInv
  <1>6. attested_seqs = DOMAIN RecordsRead
    <2>1. CASE container.scoped
      <3>1. ~Reported("unattested_tail")
        BY <1>1, Ranked, Zenon DEF Reported
      <3> QED
        BY <1>4, <2>1, <3>1, Zenon DEF TailCounted
    <2>2. CASE ~container.scoped
      <3> HIDE DEF RecordsRead
      <3> QED
        BY <1>4, <2>2, Zenon
    <2> QED
      BY <2>1, <2>2
  <1>7. \A m \in StatedExtents : V!ReachesTo(m)
    <2> SUFFICES ASSUME NEW m \in StatedExtents PROVE V!ReachesTo(m)
      BY Zenon
    <2> HIDE DEF StatedExtents
    <2>1. container.scoped
      BY <1>4, Zenon
    <2>2. /\ m \in Int /\ countersigned_high_water # None
          /\ Get(countersigned_high_water) >= m
      BY Zenon DEF StreamInv, ExtentInv
    <2> QED
      BY <1>1, <2>1, <2>2, ReachesRequired, Ranked, SMTT(30) DEF StreamInv
  <1>8. container.scoped /\ options.expect_high_water # None =>
           V!ReachesTo(Get(options.expect_high_water))
    BY <1>1, ReachesRequired, Ranked DEF StreamInv
  <1>9. RecordsRead # <<>> => StatedExtents # {} \/ options.expect_high_water # None
    <2> SUFFICES ASSUME RecordsRead # <<>>, options.expect_high_water = None
                 PROVE  StatedExtents # {}
      BY Zenon
    <2>1. DOMAIN hashes_by_seq # {}
      <3>1. PICK r : r = RecordsRead
        BY Zenon
      <3>2. r = [s \in DOMAIN hashes_by_seq |-> r[s]]
        BY <3>1 DEF RecordsRead
      <3>3. r # <<>>
        BY <3>1, Zenon
      <3>4. ASSUME NEW D, r = [s \in D |-> r[s]], D = {}
            PROVE  r = <<>>
        BY <3>4
      <3> QED
        BY <3>2, <3>3, <3>4, Zenon
    <2>2. container.scoped
      BY <1>4, <2>1, Zenon
    <2>3. "tail_completeness_unproven" \notin CV!CoverageFindings(options.expect_high_water)
      BY <1>1, <1>5, <2>2, Ranked, Zenon
    <2>4. countersigned_high_water # None
      BY <2>1, <2>3, Zenon DEF CV!CoverageFindings, CV!None, None
    <2> QED
      BY <2>4, Zenon DEF StreamInv, ExtentInv
  <1> QED
    BY <1>2, <1>3, <1>4, <1>6, <1>7, <1>8, <1>9, SMTT(30) DEF V!PassPromise, V!None, None, V!Get, Get

\* The last step gives the exit code of a promise that is kept.
LEMMA ConcludeDecides ==
    ASSUME StreamInv, TailCounted, Conclude
    PROVE  \E code \in {0, 2, 10, 11, 30} : V!Promise(code) /\ exit' = Some(code)
  <1>1. step = "report" /\ exit' = Some(ExitCode[ComputeResult])
    BY Zenon DEF Conclude
  <1>2. CASE findings \cap Errors # {}
    <2>1. exit' = Some(11)
      BY <1>1, <1>2 DEF ComputeResult, ExitCode
    <2> QED
      BY <2>1 DEF V!Promise
  <1>3. CASE findings \cap Errors = {} /\ findings \cap Warnings # {}
    <2>1. exit' = Some(10)
      BY <1>1, <1>3, Zenon DEF ComputeResult, ExitCode
    <2> QED
      BY <1>1, <1>3, <2>1, ErrorFreePromise DEF V!Promise
  <1>4. CASE findings \cap Errors = {} /\ findings \cap Warnings = {}
    <2>1. exit' = Some(0)
      BY <1>1, <1>4, Zenon DEF ComputeResult, ExitCode
    <2>2. Quiet
      BY <1>4, Zenon DEF Quiet
    <2> QED
      BY <1>1, <2>1, <2>2, QuietPromise DEF V!Promise
  <1> QED
    BY <1>2, <1>3, <1>4

LEMMA VerdictSteps ==
    ASSUME StreamInv, TailCounted, [Next]_bundleVars
    PROVE  [V!Verify \/ V!Decide]_(V!verdictVars)
  <1>1. /\ RootFromOutside' = RootFromOutside /\ container.scoped' = container.scoped
        /\ options.expect_high_water' = options.expect_high_water
    BY GivenKept, Zenon DEF RootFromOutside
  <1>2. exit # None <=> step = "exited"
    BY Zenon DEF StreamInv, ReadInv, KnownInv
  <1>3. ASSUME UNCHANGED <<hashes_by_seq, lines, checked, attested_seqs, anchored_seqs>>
        PROVE  /\ RecordsRead' = RecordsRead /\ StatedExtents' = StatedExtents
               /\ attested_seqs' = attested_seqs
               /\ anchored_seqs'[StreamId] = anchored_seqs[StreamId]
    BY <1>3 DEF RecordsRead, StatedExtents
  <1>4. CASE UNCHANGED bundleVars
    <2>1. UNCHANGED <<exit, hashes_by_seq, lines, checked, attested_seqs, anchored_seqs>>
      BY <1>4, Zenon DEF bundleVars, chainVars, checkpointVars, anchorVars
    <2> QED
      BY <1>1, <1>3, <2>1, Zenon DEF V!verdictVars
  <1>5. CASE RefuseArguments \/ Conclude
    <2>1. /\ exit = None
          /\ UNCHANGED <<hashes_by_seq, lines, checked, attested_seqs, anchored_seqs>>
      BY <1>2, <1>5, Zenon DEF RefuseArguments, Conclude, chainVars, checkpointVars, anchorVars
    <2>2. \E code \in {0, 2, 10, 11, 30} : V!Promise(code) /\ exit' = Some(code)
      <3>1. CASE RefuseArguments
        <4>1. exit' = Some(2) \/ exit' = Some(30)
          BY <3>1, Zenon DEF RefuseArguments
        <4>2. V!Promise(2) /\ V!Promise(30)
          BY DEF V!Promise
        <4> QED
          BY <4>1, <4>2, Zenon
      <3> QED
        BY <1>5, <3>1, ConcludeDecides
    <2>3. V!Decide
      BY <1>1, <1>3, <2>1, <2>2, SMTT(30) DEF V!Decide, V!None, None, V!Some, Some
    <2> QED
      BY <2>3, Zenon
  <1>6. CASE Next /\ ~RefuseArguments /\ ~Conclude
    <2>1. exit' = exit
      BY <1>6, Zenon DEF Next, AcceptArguments, VerifyContainer, VerifyIdentity, VerifyRecord,
         EndChain, SkipStream, VerifyNextCheckpoint, EndCheckpoints, VerifyAnchor, EndAnchors,
         CrossCheckCoverage
    <2>2. step # "exited"
      BY <1>6, OtherSteps, IdentitySteps, Zenon DEF StreamInv
    <2>3. V!Verify
      BY <1>1, <1>2, <2>1, <2>2 DEF V!Verify, V!None, None
    <2> QED
      BY <2>3, Zenon
  <1> QED
    BY <1>4, <1>5, <1>6
=============================================================================
