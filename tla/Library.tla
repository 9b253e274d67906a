------------------------------- MODULE Library -------------------------------
(***************************************************************************)
(* The parts of the library that keep no state for one another: reading    *)
(* and writing blocks, prompting for a pass phrase, digests, and files of  *)
(* records.  A client is one thread inside one of these calls at a time,   *)
(* and none of them changes what another has kept, so the behaviours of    *)
(* the library are, for each part, those of a client that uses only it.    *)
(***************************************************************************)
EXTENDS ReliableIO, ReadPassPhrase, Digest, ConfFile

VARIABLE inUse  \* the part the client uses

libVars == <<inUse, ioVars, promptVars, digestVars, confVars>>

LibTypeOK ==
    /\ inUse \in {"io", "prompt", "digest", "conf"}
    /\ IOTypeOK /\ PromptTypeOK /\ DigestTypeOK /\ ConfTypeOK

LibInit ==
    /\ inUse \in {"io", "prompt", "digest", "conf"}
    /\ IOInit /\ PromptInit /\ DigestInit /\ ConfInit

(* A step of one part changes nothing of the others. *)
IOOnly == inUse = "io" /\ UNCHANGED <<inUse, promptVars, digestVars, confVars>>
PromptOnly == inUse = "prompt" /\ UNCHANGED <<inUse, ioVars, digestVars, confVars>>
DigestOnly == inUse = "digest" /\ UNCHANGED <<inUse, ioVars, promptVars, confVars>>
ConfOnly == inUse = "conf" /\ UNCHANGED <<inUse, ioVars, promptVars, digestVars>>

LibNext ==
    \/ IOOnly /\ IONext
    \/ PromptOnly /\ PromptNext
    \/ DigestOnly /\ DigestNext
    \/ ConfOnly /\ ConfNext

(* The process runs; the peer of a stream sends or closes; a stopped        *)
(* process is continued by its user, who types.  Nothing is asked of        *)
(* signals, faults, or a client's next call.                                *)
LibFairness ==
    /\ WF_libVars(IOOnly /\ IOStep) /\ WF_libVars(IOOnly /\ PeerSends)
    /\ WF_libVars(PromptOnly /\ PromptStep) /\ WF_libVars(PromptOnly /\ Continue)

LibSpec == LibInit /\ [][LibNext]_libVars /\ LibFairness
=============================================================================
