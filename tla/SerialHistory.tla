--------------------------- MODULE SerialHistory ---------------------------
(***************************************************************************)
(* What the transaction authority of a domain promises its clients, in the *)
(* terms of RFC-0008: committed transactions form one history that only    *)
(* grows, every transaction is decided at most once, and a committed       *)
(* transaction finds at its place in the history what it read when it      *)
(* began.  One step may decide several transactions, as the recovery of a  *)
(* staged prefix does.                                                     *)
(***************************************************************************)
EXTENDS Naturals, Sequences, FiniteSets

CONSTANTS Txns, ReadSet, WriteSet, None

VARIABLES
    history,    \* the committed transactions, in order
    refused,    \* the transactions decided not to commit
    began       \* [Txns -> length of the history its reads observed, or None]

serialVars == << history, refused, began >>

Decided == refused \cup {history[i] : i \in DOMAIN history}

SerialInit ==
    /\ history = << >>
    /\ refused = {}
    /\ began = [t \in Txns |-> None]

Begin(t) ==
    /\ t \notin Decided
    /\ began' = [began EXCEPT ![t] = Len(history)]
    /\ UNCHANGED << history, refused >>

\* Nothing t read is written between where its reads were made and where it
\* enters the longer history h at place k.
ReadsStillHold(t, h, k) ==
    /\ began[t] # None
    /\ \A i \in began[t] + 1 .. k - 1 : WriteSet[h[i]] \cap ReadSet[t] = {}

Decide(longer, dropped) ==
    /\ Len(history) <= Len(longer)
    /\ SubSeq(longer, 1, Len(history)) = history
    /\ \A k \in Len(history) + 1 .. Len(longer) :
          /\ longer[k] \notin Decided \cup dropped
          /\ \A j \in Len(history) + 1 .. k - 1 : longer[j] # longer[k]
          /\ ReadsStillHold(longer[k], longer, k)
    /\ dropped \cap Decided = {}
    /\ history' = longer
    /\ refused' = refused \cup dropped
    /\ UNCHANGED began

SerialNext ==
    \/ \E t \in Txns : Begin(t)
    \/ Decide(history', refused' \ refused)

SerialSpec == SerialInit /\ [][SerialNext]_serialVars
=============================================================================
