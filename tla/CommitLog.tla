----------------------------- MODULE CommitLog ------------------------------
(***************************************************************************)
(* What the commit protocol promises a client, without manifests, pointers *)
(* or slots: one append-only log of commits, an acknowledgement only for   *)
(* what is in it, a definitive rejection only for what will stay out of    *)
(* it, and an epoch that moves one claim at a time.                        *)
(***************************************************************************)
EXTENDS Integers, Sequences, SequencesExt

VARIABLES
  log,       \* the commits, each a sequence of records
  acked,     \* batches whose commit the client knows of
  rejected,  \* batches whose commit the client was told is absent
  epoch

vars == <<log, acked, rejected, epoch>>

BatchesIn(l) == UNION {{l[i][j].b : j \in DOMAIN l[i]} : i \in DOMAIN l}

\* Records are logged in LSN order, and no batch is logged twice.
InOrder(l) ==
  \A i, k \in DOMAIN l : \A j \in DOMAIN l[i], n \in DOMAIN l[k] :
    i < k \/ (i = k /\ j < n) => l[i][j].lsn < l[k][n].lsn /\ l[i][j].b # l[k][n].b

Init ==
  /\ log = <<>> /\ acked = {} /\ rejected = {} /\ epoch = 0

\* A commit becomes visible, all of it at once, after the ones before it, and
\* holds nothing that was logged before or rejected; the client may learn of
\* it now.
Commit ==
  /\ log' # <<>> /\ Front(log') = log /\ Last(log') # <<>>
  /\ InOrder(log')
  /\ acked \subseteq acked' /\ acked' \subseteq BatchesIn(log')
  /\ rejected \cap BatchesIn(log') = {}
  /\ UNCHANGED <<rejected, epoch>>

\* The client learns of a commit that was already visible.
Ack ==
  /\ acked \subseteq acked' /\ acked' \subseteq BatchesIn(log)
  /\ UNCHANGED <<log, rejected, epoch>>

\* A commit is given up for good, or tried again after having been.
Reject ==
  /\ rejected' \cap BatchesIn(log) = {}
  /\ UNCHANGED <<log, acked, epoch>>

\* A writer takes over.
Claim == epoch' = epoch + 1 /\ UNCHANGED <<log, acked, rejected>>

Next == Commit \/ Ack \/ Reject \/ Claim

Spec == Init /\ [][Next]_vars
=============================================================================
