---------------------------- MODULE SnapshotAnswers ----------------------------
(***************************************************************************)
(* What the snapshot and profiling APIs promise under concurrent syncs: an *)
(* answer is put together from whole committed versions of the slice, each *)
(* part from a version no older than the part before.  They promise no     *)
(* more: the parts need not be of one version.                             *)
(***************************************************************************)
EXTENDS Naturals, Sequences, SequencesExt

CONSTANTS Requests,                 \* read requests
          Query(_, _, _, _),        \* (part, ask, answers before, slice)
          Parts(_)                  \* the parts of a request, in order

VARIABLES versions,  \* the slices committed so far, oldest first
          asked,     \* what a request asks for, <<>> before it starts
          answer,    \* part -> value
          stamps     \* the version each part is of

answerVars == <<versions, asked, answer, stamps>>

Init ==
  /\ Len(versions) = 1
  /\ asked = [q \in Requests |-> <<>>]
  /\ answer = [q \in Requests |-> <<>>]
  /\ stamps = [q \in Requests |-> <<>>]

Commit ==
  /\ Len(versions') = Len(versions) + 1 /\ IsPrefix(versions, versions')
  /\ UNCHANGED <<asked, answer, stamps>>

Ask(q) ==
  /\ asked[q] = <<>>
  /\ asked' = [asked EXCEPT ![q] = asked'[q]]
  /\ UNCHANGED <<versions, answer, stamps>>

(* The next part, from a version no older than the last part's.            *)
AnswerPart(q) == \E v \in DOMAIN versions :
  /\ asked[q] # <<>> /\ Len(stamps[q]) < Len(Parts(q))
  /\ \A i \in DOMAIN stamps[q] : stamps[q][i] <= v
  /\ LET part == Parts(q)[Len(stamps[q]) + 1]
     IN  answer' = [answer EXCEPT ![q] =
           [p \in DOMAIN @ \cup {part} |->
              IF p = part THEN Query(part, asked[q], @, versions[v]) ELSE @[p]]]
  /\ stamps' = [stamps EXCEPT ![q] = Append(@, v)]
  /\ UNCHANGED <<versions, asked>>

Next == Commit \/ \E q \in Requests : Ask(q) \/ AnswerPart(q)

Spec == Init /\ [][Next]_answerVars
=============================================================================
