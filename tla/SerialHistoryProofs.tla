------------------------ MODULE SerialHistoryProofs -------------------------
(***************************************************************************)
(* The staged path implements the serial history of RFC-0008, for every    *)
(* set of transactions, keys, log sets and policies, when the authority    *)
(* itself looks for conflicts (no resolver answers in its place).          *)
(*                                                                         *)
(* A transaction is checked for conflicts when it is staged and enters the *)
(* history much later, perhaps by a successor, so the invariant says what  *)
(* its reads are still safe from: everything committed since, and every    *)
(* unresolved transaction before it.                                       *)
(***************************************************************************)
EXTENDS CellTransactionProofs

ReadVersions == [generation : Nat, sequence : Nat, length : Nat]

\* No transaction is staged twice.
StagedOnce ==
    \A i, j \in Staged : staged_transactions[i].id = staged_transactions[j].id => i = j

\* A read version is of a committed prefix: what was committed after it has a
\* greater version.
SnapshotsArePrefixes ==
    \A t \in Txns : read_version[t] # None =>
       /\ read_version[t].length <= Len(committed_envelopes)
       /\ read_version[t].sequence <= latest_sequence
       /\ \A k \in DOMAIN committed_envelopes :
             k > read_version[t].length =>
                committed_envelopes[k].sequence > read_version[t].sequence

\* What an unresolved transaction read was written neither by what was committed
\* since nor by an unresolved transaction before it.
PendingReadsHold ==
    \A i \in Unresolved :
       LET t == staged_transactions[i].id IN
       /\ read_version[t] # None
       /\ \A k \in DOMAIN committed_envelopes :
             k > read_version[t].length =>
                WriteSet[committed_envelopes[k].id] \cap ReadSet[t] = {}
       /\ \A j \in Unresolved :
             j < i => WriteSet[staged_transactions[j].id] \cap ReadSet[t] = {}

\* What a committed transaction read was not written between its read version and
\* its place.
HistoryReadsHold ==
    \A k \in DOMAIN committed_envelopes :
       LET t == committed_envelopes[k].id IN
       /\ read_version[t] # None
       /\ \A j \in DOMAIN committed_envelopes :
             j > read_version[t].length /\ j < k =>
                WriteSet[committed_envelopes[j].id] \cap ReadSet[t] = {}

ReadsInv ==
    /\ read_version \in [Txns -> ReadVersions \cup {None}]
    /\ StagedOnce /\ SnapshotsArePrefixes /\ PendingReadsHold /\ HistoryReadsHold

-----------------------------------------------------------------------------
(***************************************************************************)
(* What a step does to the reads.                                          *)
(***************************************************************************)
\* Read versions change only when a client asks for one.
LEMMA ReadVersionStep ==
  ASSUME StagedPathNext
  PROVE  UNCHANGED read_version \/ \E t \in Txns : GetReadVersion(t)
  <1>1. CASE ReadNext
    BY <1>1 DEF ReadNext
  <1>2. CASE PolicyNext \/ StageNext
    BY <1>2 DEF PolicyNext, InstallLogSetPolicies, StageNext, Stage
  <1>3. CASE EvidenceNext
    BY <1>3 DEF EvidenceNext, RecordLogReceipt, RecordLogCertificate, staged_only
  <1>4. CASE PublishNext
    BY <1>4 DEF PublishNext, Publish, publish_staged_transaction
  <1>5. CASE TakeoverNext
    BY <1>5 DEF TakeoverNext, TakeoverPublish, publish_staged_transaction, TakeoverAbort,
                TakeoverRecoverPrefix
  <1>6. CASE AuthorityNext
    BY <1>6 DEF AuthorityNext, cellVars
  <1> QED
    BY <1>1, <1>2, <1>3, <1>4, <1>5, <1>6 DEF StagedPathNext

\* What the type of the domain says of each committed envelope.
LEMMA CommittedTyped ==
  ASSUME DomainTyped
  PROVE  /\ Len(committed_envelopes) \in Nat
         /\ DOMAIN committed_envelopes = 1 .. Len(committed_envelopes)
         /\ \A k \in DOMAIN committed_envelopes :
               /\ committed_envelopes[k] \in EnvelopeRecords
               /\ committed_envelopes[k].id \in Txns
               /\ committed_envelopes[k].sequence \in Nat
  <1>1. committed_envelopes \in Seq(EnvelopeRecords)
    BY DEF DomainTyped
  <1>2. /\ Len(committed_envelopes) \in Nat
        /\ DOMAIN committed_envelopes = 1 .. Len(committed_envelopes)
        /\ \A k \in DOMAIN committed_envelopes : committed_envelopes[k] \in EnvelopeRecords
    BY <1>1
  <1> QED
    BY <1>2 DEF EnvelopeRecords

\* The window in terms of identities and versions: the staged transactions keep
\* theirs, and the history grows by those of the window, in order.
LEMMA WindowIds ==
  ASSUME StagedInv, NEW u \in Nat \ {0}, NEW m \in Nat, WindowResolved(u, m)
  PROVE  LET S == staged_transactions
             c == Len(committed_envelopes) IN
         /\ Staged' = Staged
         /\ \A i \in Staged : /\ staged_transactions'[i].id = S[i].id
                              /\ staged_transactions'[i].sequence = S[i].sequence
         /\ DOMAIN committed_envelopes' = 1 .. (c + m)
         /\ \A k \in 1 .. c : committed_envelopes'[k] = committed_envelopes[k]
         /\ \A k \in 1 .. m : /\ u + k - 1 \in Unresolved
                              /\ committed_envelopes'[c + k].id = S[u + k - 1].id
                              /\ committed_envelopes'[c + k].sequence = S[u + k - 1].sequence
  <1> DEFINE S == staged_transactions
             T == staged_transactions'
             c == Len(committed_envelopes)
  <1>1. /\ Staged' = Staged /\ \A i \in Staged : T[i] \in StagedRecords /\ S[i] \in StagedRecords
        /\ c \in Nat
    BY StagedTyped, CommittedTyped DEF WindowResolved, Staged, DomainTyped, StagedInv
  <1>2. ASSUME NEW i \in Staged
        PROVE  T[i].id = S[i].id /\ T[i].sequence = S[i].sequence
    <2>1. EnvelopeOf(T[i]) = EnvelopeOf(S[i])
      BY DEF WindowResolved
    <2>2. /\ EnvelopeOf(T[i]).id = T[i].id /\ EnvelopeOf(T[i]).sequence = T[i].sequence
          /\ EnvelopeOf(S[i]).id = S[i].id /\ EnvelopeOf(S[i]).sequence = S[i].sequence
      BY <1>1, EnvelopeTyped
    <2> QED
      BY <2>1, <2>2
  <1>3. /\ DOMAIN committed_envelopes' = 1 .. (c + m)
        /\ \A k \in 1 .. c : committed_envelopes'[k] = committed_envelopes[k]
    BY <1>1 DEF WindowResolved
  <1>4. ASSUME NEW k \in 1 .. m
        PROVE  /\ u + k - 1 \in Unresolved
               /\ committed_envelopes'[c + k].id = S[u + k - 1].id
               /\ committed_envelopes'[c + k].sequence = S[u + k - 1].sequence
    <2>1. u + k - 1 \in u .. (u + m - 1)
      OBVIOUS
    <2>2. u + k - 1 \in Unresolved /\ u + k - 1 \in Staged
      BY <2>1 DEF WindowResolved, Unresolved
    <2>3. committed_envelopes'[c + k] = EnvelopeOf(S[u + k - 1])
      BY DEF WindowResolved
    <2> QED
      BY <1>1, <2>2, <2>3, EnvelopeTyped
  <1> QED
    BY <1>1, <1>2, <1>3, <1>4

\* Resolving a window keeps the reads: its transactions follow what is committed
\* and precede what stays unresolved.
LEMMA WindowReads ==
  ASSUME StagedInv, ReadsInv, UNCHANGED read_version,
         NEW u \in Nat \ {0}, NEW m \in Nat, WindowResolved(u, m)
  PROVE  ReadsInv'
  <1> DEFINE S == staged_transactions
             T == staged_transactions'
             C == committed_envelopes
             D == committed_envelopes'
             c == Len(committed_envelopes)
             rv == read_version
  <1>1. /\ c \in Nat /\ DOMAIN C = 1 .. c /\ DOMAIN D = 1 .. (c + m)
        /\ Staged \subseteq Nat /\ latest_sequence \in Nat
        /\ Staged' = Staged /\ Unresolved \subseteq Staged
        /\ \A i \in Staged : /\ S[i].id \in Txns /\ S[i].sequence \in Nat
                             /\ T[i].id = S[i].id
        /\ \A k \in 1 .. c : C[k].id \in Txns /\ C[k].sequence \in Nat
    BY StagedTyped, CommittedTyped, WindowIds DEF StagedInv, DomainTyped, Unresolved
  <1>2. /\ \A k \in 1 .. c : D[k] = C[k]
        /\ \A k \in 1 .. m : /\ u + k - 1 \in Unresolved
                             /\ D[c + k].id = S[u + k - 1].id
                             /\ D[c + k].sequence = S[u + k - 1].sequence
    BY WindowIds
  <1>3. \A i \in Unresolved : S[i].sequence > latest_sequence
    BY DEF StagedInv, PendingLinked
  <1>4. /\ \A i \in Unresolved' : i \in Unresolved /\ i \notin u .. (u + m - 1)
        /\ \A i \in Unresolved : m > 0 => u <= i
    BY DEF WindowResolved
  <1>5. /\ \A t \in Txns : rv[t] # None => rv[t] \in ReadVersions
        /\ \A t \in Txns : rv[t] # None => rv[t].length \in Nat /\ rv[t].sequence \in Nat
    <2>1. \A t \in Txns : rv[t] # None => rv[t] \in ReadVersions
      BY DEF ReadsInv
    <2> QED
      BY <2>1 DEF ReadVersions
  <1>6. \A k \in 1 .. (c + m) : \/ k \in 1 .. c
                                \/ \E q \in 1 .. m : k = c + q
    <2> TAKE k \in 1 .. (c + m)
    <2>1. k \notin 1 .. c => k - c \in 1 .. m /\ k = c + (k - c)
      BY <1>1
    <2> QED
      BY <2>1
  <1>7. latest_sequence' \in Nat /\ latest_sequence' >= latest_sequence
    <2>1. CASE m = 0
      BY <1>1, <2>1 DEF WindowResolved
    <2>2. CASE m > 0
      <3>1. u + m - 1 \in Unresolved
        BY <1>2, <2>2
      <3> QED
        BY <1>1, <1>3, <2>2, <3>1 DEF WindowResolved
    <2> QED
      BY <2>1, <2>2
  <1> HIDE DEF S, T, C, D, c, rv
  <1>8. StagedOnce'
    BY <1>1 DEF ReadsInv, StagedOnce, S, T
  <1>9. SnapshotsArePrefixes'
    <2> SUFFICES ASSUME NEW t \in Txns, rv[t] # None
                 PROVE  /\ rv[t].length <= c + m
                        /\ rv[t].sequence <= latest_sequence'
                        /\ \A k \in 1 .. (c + m) : k > rv[t].length =>
                              D[k].sequence > rv[t].sequence
      <3>1. Len(D) = c + m
        BY DEF WindowResolved, D, c
      <3> QED
        BY <1>1, <3>1 DEF SnapshotsArePrefixes, rv, D
    <2>1. /\ rv[t].length <= c /\ rv[t].sequence <= latest_sequence
          /\ \A k \in 1 .. c : k > rv[t].length => C[k].sequence > rv[t].sequence
      BY <1>1 DEF ReadsInv, SnapshotsArePrefixes, rv, c, C
    <2>2. rv[t].length <= c + m /\ rv[t].sequence <= latest_sequence'
      BY <1>1, <1>5, <1>7, <2>1
    <2>3. ASSUME NEW k \in 1 .. (c + m), k > rv[t].length
          PROVE  D[k].sequence > rv[t].sequence
      <3>1. CASE k \in 1 .. c
        BY <1>2, <2>1, <2>3, <3>1
      <3>2. ASSUME NEW q \in 1 .. m, k = c + q
            PROVE  D[k].sequence > rv[t].sequence
        <4>1. /\ D[k].sequence = S[u + q - 1].sequence
              /\ S[u + q - 1].sequence > latest_sequence
              /\ S[u + q - 1].sequence \in Nat
          BY <1>1, <1>2, <1>3, <3>2
        <4> QED
          BY <1>1, <1>5, <2>1, <4>1
      <3> QED
        BY <1>6, <3>1, <3>2
    <2> QED
      BY <2>2, <2>3
  <1>10. \A i \in Unresolved :
            /\ rv[S[i].id] # None
            /\ \A k \in 1 .. c : k > rv[S[i].id].length =>
                  WriteSet[C[k].id] \cap ReadSet[S[i].id] = {}
            /\ \A j \in Unresolved : j < i => WriteSet[S[j].id] \cap ReadSet[S[i].id] = {}
    BY <1>1 DEF ReadsInv, PendingReadsHold, S, C, rv
  <1>11. PendingReadsHold'
    <2> SUFFICES ASSUME NEW i \in Unresolved'
                 PROVE  /\ rv[S[i].id] # None
                        /\ \A k \in 1 .. (c + m) : k > rv[S[i].id].length =>
                              WriteSet[D[k].id] \cap ReadSet[S[i].id] = {}
                        /\ \A j \in Unresolved' : j < i =>
                              WriteSet[S[j].id] \cap ReadSet[S[i].id] = {}
      <3>1. \A j \in Unresolved' : T[j].id = S[j].id
        BY <1>1, <1>4
      <3> QED
        BY <1>1, <3>1 DEF PendingReadsHold, rv, T, D
    <2>1. i \in Unresolved /\ i \notin u .. (u + m - 1) /\ (m > 0 => u <= i) /\ i \in Nat
      BY <1>1, <1>4
    <2>2. ASSUME NEW k \in 1 .. (c + m), k > rv[S[i].id].length
          PROVE  WriteSet[D[k].id] \cap ReadSet[S[i].id] = {}
      <3>1. CASE k \in 1 .. c
        BY <1>2, <1>10, <2>1, <2>2, <3>1
      <3>2. ASSUME NEW q \in 1 .. m, k = c + q
            PROVE  WriteSet[D[k].id] \cap ReadSet[S[i].id] = {}
        <4>1. u + q - 1 \in Unresolved /\ D[k].id = S[u + q - 1].id
          BY <1>2, <3>2
        <4>2. u + q - 1 < i
          BY <2>1
        <4> QED
          BY <1>10, <2>1, <4>1, <4>2
      <3> QED
        BY <1>6, <3>1, <3>2
    <2> QED
      BY <1>4, <1>10, <2>1, <2>2
  <1>12. HistoryReadsHold'
    <2> SUFFICES ASSUME NEW k \in 1 .. (c + m)
                 PROVE  /\ rv[D[k].id] # None
                        /\ \A j \in 1 .. (c + m) : j > rv[D[k].id].length /\ j < k =>
                              WriteSet[D[j].id] \cap ReadSet[D[k].id] = {}
      BY <1>1 DEF HistoryReadsHold, rv, D
    <2>1. CASE k \in 1 .. c
      <3>1. /\ D[k].id = C[k].id /\ rv[C[k].id] # None
            /\ \A j \in 1 .. c : j > rv[C[k].id].length /\ j < k =>
                  WriteSet[C[j].id] \cap ReadSet[C[k].id] = {}
        BY <1>1, <1>2, <2>1 DEF ReadsInv, HistoryReadsHold, C, rv
      <3>2. \A j \in 1 .. (c + m) : j < k => j \in 1 .. c /\ D[j] = C[j]
        BY <1>1, <1>2, <2>1
      <3> QED
        BY <3>1, <3>2
    <2>2. ASSUME NEW q \in 1 .. m, k = c + q
          PROVE  /\ rv[D[k].id] # None
                 /\ \A j \in 1 .. (c + m) : j > rv[D[k].id].length /\ j < k =>
                       WriteSet[D[j].id] \cap ReadSet[D[k].id] = {}
      <3>1. u + q - 1 \in Unresolved /\ D[k].id = S[u + q - 1].id
        BY <1>2, <2>2
      <3>2. ASSUME NEW j \in 1 .. (c + m), j > rv[D[k].id].length, j < k
            PROVE  WriteSet[D[j].id] \cap ReadSet[D[k].id] = {}
        <4>1. CASE j \in 1 .. c
          BY <1>2, <1>10, <3>1, <3>2, <4>1
        <4>2. ASSUME NEW p \in 1 .. m, j = c + p
              PROVE  WriteSet[D[j].id] \cap ReadSet[D[k].id] = {}
          <5>1. u + p - 1 \in Unresolved /\ D[j].id = S[u + p - 1].id
            BY <1>2, <4>2
          <5>2. u + p - 1 < u + q - 1
            BY <1>1, <2>2, <3>2, <4>2
          <5> QED
            BY <1>10, <3>1, <5>1, <5>2
        <4> QED
          BY <1>6, <4>1, <4>2
      <3> QED
        BY <1>10, <3>1, <3>2
    <2> QED
      BY <1>6, <2>1, <2>2
  <1> QED
    BY <1>8, <1>9, <1>11, <1>12 DEF ReadsInv

\* Staging refuses a transaction that read what is written since its read version,
\* by a committed or by an unresolved transaction.
LEMMA StageReads ==
  ASSUME StagedInv, ReadsInv, NEW t \in Txns, Stage(t, None),
         Len(staged_transactions') = Len(staged_transactions) + 1,
         \A i \in Staged : staged_transactions'[i] = staged_transactions[i],
         staged_transactions'[Len(staged_transactions) + 1].status = "pending"
  PROVE  ReadsInv'
  <1> DEFINE S == staged_transactions
             T == staged_transactions'
             C == committed_envelopes
             n == Len(staged_transactions)
             c == Len(committed_envelopes)
             rv == read_version
  <1>1. /\ n \in Nat /\ Staged = 1 .. n /\ Unresolved \subseteq 1 .. n
        /\ c \in Nat /\ DOMAIN C = 1 .. c /\ latest_sequence \in Nat
        /\ \A i \in Staged : /\ S[i].id \in Txns /\ S[i].sequence \in Nat
                             /\ i \in Unresolved => /\ S[i].sequence > latest_sequence
                                                    /\ S[i].status = "pending"
        /\ \A k \in 1 .. c : C[k].id \in Txns /\ C[k].sequence \in Nat
    BY StagedTyped, CommittedTyped DEF StagedInv, DomainTyped, Unresolved, PendingLinked
  <1>2. /\ UNCHANGED << committed_envelopes, latest_sequence, read_version >>
        /\ rv[t] # None /\ rv[t].sequence <= latest_sequence
        /\ ~ IsStaged(t) /\ ~ conflicts_with_committed(t) /\ ~ conflicts_with_staged(t)
    BY DEF Stage, stage_admissible, valid_read_version
  <1>3. T = Append(S, [ id |-> t, generation |-> domain_generation, credential |-> Credential,
                        sequence |-> next_commit_sequence, prev |-> staged_log_chain,
                        receipts |-> {}, certificates |-> {}, status |-> "pending" ])
    BY DEF Stage
  <1>4. T[n + 1].id = t /\ Staged' = 1 .. (n + 1)
    <2>1. S \in Seq(StagedRecords)
      BY DEF StagedInv, DomainTyped
    <2> QED
      BY <1>3, <2>1 DEF Staged
  <1>5. rv[t] \in ReadVersions /\ rv[t].sequence \in Nat /\ rv[t].length \in Nat
    <2>1. rv[t] \in ReadVersions
      BY <1>2 DEF ReadsInv
    <2> QED
      BY <2>1 DEF ReadVersions
  <1>6. \A i \in Unresolved' : \/ i \in Unresolved /\ T[i] = S[i]
                              \/ i = n + 1
    BY <1>1, <1>4 DEF Unresolved
  <1> HIDE DEF S, T, C, n, c, rv
  <1>7. \A i \in 1 .. n : S[i].id # t /\ T[i] = S[i]
    BY <1>1, <1>2 DEF IsStaged, S, T, n
  <1>8. StagedOnce'
    <2>1. \A i, j \in 1 .. n : S[i].id = S[j].id => i = j
      BY <1>1 DEF ReadsInv, StagedOnce, S
    <2>2. \A i \in 1 .. (n + 1) : i \in 1 .. n \/ i = n + 1
      BY <1>1
    <2>3. \A i, j \in 1 .. (n + 1) : T[i].id = T[j].id => i = j
      BY <1>4, <1>7, <2>1, <2>2
    <2> QED
      BY <1>4, <2>3 DEF StagedOnce, T
  <1>9. SnapshotsArePrefixes' /\ HistoryReadsHold'
    BY <1>2 DEF ReadsInv, SnapshotsArePrefixes, HistoryReadsHold
  <1>10. \A k \in 1 .. c : k > rv[t].length => WriteSet[C[k].id] \cap ReadSet[t] = {}
    <2> SUFFICES ASSUME NEW k \in 1 .. c, k > rv[t].length
                 PROVE  WriteSet[C[k].id] \cap ReadSet[t] = {}
      OBVIOUS
    <2>1. C[k].sequence > rv[t].sequence
      BY <1>1, <1>2 DEF ReadsInv, SnapshotsArePrefixes, C, rv
    <2>2. [sequence |-> C[k].sequence, range |-> WriteSet[C[k].id]] \in committed_writes
      BY <1>1 DEF committed_writes, C
    <2> DEFINE w == [sequence |-> C[k].sequence, range |-> WriteSet[C[k].id]]
    <2>3. w.sequence = C[k].sequence /\ w.range = WriteSet[C[k].id]
      OBVIOUS
    <2> QED
      BY <1>2, <2>1, <2>2, <2>3 DEF conflicts_with_committed, rv
  <1>11. \A j \in Unresolved : WriteSet[S[j].id] \cap ReadSet[t] = {}
    <2> SUFFICES ASSUME NEW j \in Unresolved
                 PROVE  WriteSet[S[j].id] \cap ReadSet[t] = {}
      OBVIOUS
    <2>1. /\ j \in Staged /\ S[j].status # "aborted"
          /\ S[j].sequence > rv[t].sequence
      BY <1>1, <1>2, <1>5
    <2> QED
      BY <1>2, <2>1 DEF conflicts_with_staged, S, rv
  <1>12. PendingReadsHold'
    <2>1. \A i \in Unresolved :
            /\ rv[S[i].id] # None
            /\ \A k \in 1 .. c : k > rv[S[i].id].length =>
                  WriteSet[C[k].id] \cap ReadSet[S[i].id] = {}
            /\ \A j \in Unresolved : j < i => WriteSet[S[j].id] \cap ReadSet[S[i].id] = {}
      BY <1>1 DEF ReadsInv, PendingReadsHold, S, C, rv
    <2> SUFFICES ASSUME NEW i \in Unresolved'
                 PROVE  /\ rv[T[i].id] # None
                        /\ \A k \in 1 .. c : k > rv[T[i].id].length =>
                              WriteSet[C[k].id] \cap ReadSet[T[i].id] = {}
                        /\ \A j \in Unresolved' : j < i =>
                              WriteSet[T[j].id] \cap ReadSet[T[i].id] = {}
      BY <1>1, <1>2 DEF PendingReadsHold, rv, T, C
    <2>2. CASE i = n + 1
      <3>1. \A j \in Unresolved' : j < i => j \in Unresolved /\ T[j] = S[j]
        BY <1>1, <1>6, <2>2
      <3> QED
        BY <1>2, <1>4, <1>10, <1>11, <2>2, <3>1
    <2>3. CASE i \in Unresolved /\ T[i] = S[i]
      <3>1. \A j \in Unresolved' : j < i => j \in Unresolved /\ T[j] = S[j]
        BY <1>1, <1>6, <2>3
      <3> QED
        BY <2>1, <2>3, <3>1
    <2> QED
      BY <1>6, <2>2, <2>3
  <1> QED
    BY <1>2, <1>8, <1>9, <1>12 DEF ReadsInv

\* A client asks for a read version before it submits its transaction.
LEMMA AskReads ==
  ASSUME StagedInv, ReadsInv, NEW t \in Txns, GetReadVersion(t)
  PROVE  ReadsInv'
  <1> DEFINE rv == read_version
             C  == committed_envelopes
             v  == [generation |-> domain_generation, sequence |-> latest_sequence,
                    length |-> Len(committed_envelopes)]
  <1>1. /\ ~ IsStaged(t) /\ ~ IsCommitted(t) /\ UNCHANGED domainVars
        /\ read_version' = [read_version EXCEPT ![t] = v]
    BY DEF GetReadVersion
  <1>2. /\ v \in ReadVersions /\ v.length = Len(C) /\ v.sequence = latest_sequence
        /\ Len(C) \in Nat /\ DOMAIN C = 1 .. Len(C) /\ latest_sequence \in Nat
        /\ rv \in [Txns -> ReadVersions \cup {None}]
    BY CommittedTyped DEF StagedInv, DomainTyped, ReadVersions, ReadsInv
  <1> HIDE DEF v
  <1>3. /\ read_version' \in [Txns -> ReadVersions \cup {None}] /\ read_version'[t] = v
        /\ \A o \in Txns \ {t} : read_version'[o] = rv[o]
    BY <1>1, <1>2
  <1>4. UNCHANGED << committed_envelopes, staged_transactions, latest_sequence >>
    BY <1>1 DEF domainVars
  <1>5. Staged' = Staged /\ Unresolved' = Unresolved /\ Unresolved \subseteq Staged
    BY <1>4 DEF Staged, Unresolved
  <1>6. /\ \A i \in Staged : staged_transactions[i].id \in Txns \ {t}
        /\ \A k \in DOMAIN C : C[k].id \in Txns \ {t}
    BY <1>1, StagedTyped, CommittedTyped DEF StagedInv, IsStaged, IsCommitted
  <1>7. StagedOnce'
    BY <1>4, <1>5 DEF ReadsInv, StagedOnce
  <1>8. SnapshotsArePrefixes'
    <2> SUFFICES ASSUME NEW o \in Txns, read_version'[o] # None
                 PROVE  /\ read_version'[o].length <= Len(C)
                        /\ read_version'[o].sequence <= latest_sequence
                        /\ \A k \in DOMAIN C : k > read_version'[o].length =>
                              C[k].sequence > read_version'[o].sequence
      BY <1>4 DEF SnapshotsArePrefixes
    <2>1. CASE o = t
      BY <1>2, <1>3, <2>1
    <2>2. CASE o # t
      BY <1>3, <2>2 DEF ReadsInv, SnapshotsArePrefixes
    <2> QED
      BY <2>1, <2>2
  <1>9. PendingReadsHold'
    BY <1>3, <1>4, <1>5, <1>6 DEF ReadsInv, PendingReadsHold
  <1>10. HistoryReadsHold'
    BY <1>3, <1>4, <1>6 DEF ReadsInv, HistoryReadsHold
  <1> QED
    BY <1>3, <1>7, <1>8, <1>9, <1>10 DEF ReadsInv

-----------------------------------------------------------------------------
(***************************************************************************)
(* The refinement: the history, the refusals and the snapshots that the    *)
(* abstract specification sees.                                            *)
(***************************************************************************)
HistorySeen == [k \in DOMAIN committed_envelopes |-> committed_envelopes[k].id]

RefusedSeen ==
    {staged_transactions[i].id : i \in {i \in Staged : staged_transactions[i].status = "aborted"}}

BeganSeen ==
    [t \in Txns |-> IF read_version[t] = None THEN None ELSE read_version[t].length]

DecidedSeen == RefusedSeen \cup {HistorySeen[i] : i \in DOMAIN HistorySeen}

\* The history seen is a sequence as long as the committed one.
LEMMA HistoryIsSequence ==
  ASSUME DomainTyped
  PROVE  /\ HistorySeen \in Seq(Txns) /\ Len(HistorySeen) = Len(committed_envelopes)
         /\ DOMAIN HistorySeen = 1 .. Len(committed_envelopes)
         /\ \A k \in 1 .. Len(committed_envelopes) : HistorySeen[k] = committed_envelopes[k].id
  <1> DEFINE c == Len(committed_envelopes)
  <1>1. c \in Nat /\ HistorySeen \in [1 .. c -> Txns]
    BY CommittedTyped DEF HistorySeen
  <1>2. HistorySeen \in Seq(Txns) /\ Len(HistorySeen) = c
    BY <1>1, IntervalSequence
  <1> QED
    BY <1>1, <1>2, CommittedTyped DEF HistorySeen

\* A committed transaction is a visible staged one.
LEMMA CommittedIsVisible ==
  ASSUME StagedInv, NEW k \in DOMAIN committed_envelopes
  PROVE  \E i \in Visible : committed_envelopes[k].id = staged_transactions[i].id
  <1>1. PICK i \in Visible : committed_envelopes[k] = EnvelopeOf(staged_transactions[i])
    BY DEF StagedInv, ResolvedInStagedOrder
  <1>2. staged_transactions[i] \in StagedRecords
    BY StagedTyped DEF StagedInv, Visible
  <1> QED
    BY <1>1, <1>2, EnvelopeTyped

\* No transaction is in the committed history twice.
LEMMA CommittedOnce ==
  ASSUME StagedInv
  PROVE  \A j, k \in DOMAIN committed_envelopes :
            StagedOnce /\ j < k => committed_envelopes[j].id # committed_envelopes[k].id
  <1> SUFFICES ASSUME NEW j \in DOMAIN committed_envelopes, NEW k \in DOMAIN committed_envelopes,
                      StagedOnce, j < k
               PROVE  committed_envelopes[j].id # committed_envelopes[k].id
    OBVIOUS
  <1>1. PICK a \in Visible : committed_envelopes[j] = EnvelopeOf(staged_transactions[a])
    BY DEF StagedInv, ResolvedInStagedOrder
  <1>2. PICK b \in Visible : committed_envelopes[k] = EnvelopeOf(staged_transactions[b])
    BY DEF StagedInv, ResolvedInStagedOrder
  <1>3. /\ committed_envelopes[j].sequence < committed_envelopes[k].sequence
        /\ committed_envelopes[j].sequence \in Nat /\ committed_envelopes[k].sequence \in Nat
    BY CommittedTyped DEF StagedInv, ResolvedInStagedOrder
  <1>4. a # b
    BY <1>1, <1>2, <1>3
  <1>5. a \in Staged /\ b \in Staged
    BY DEF Visible
  <1>6. /\ committed_envelopes[j].id = staged_transactions[a].id
        /\ committed_envelopes[k].id = staged_transactions[b].id
    BY <1>1, <1>2, <1>5, StagedTyped, EnvelopeTyped DEF StagedInv
  <1> QED
    BY <1>4, <1>5, <1>6 DEF StagedOnce

\* The three statuses split the staged transactions.
LEMMA StatusSplit ==
  ASSUME DomainTyped
  PROVE  /\ Visible \cap Unresolved = {}
         /\ \A i \in Staged : staged_transactions[i].status = "aborted" <=>
                                 i \notin Visible \cup Unresolved
  BY StagedTyped DEF Visible, Unresolved

\* A step that resolves a window decides its transactions, and those it aborts, and
\* no decided one again.
LEMMA WindowDecides ==
  ASSUME StagedInv, ReadsInv, StagedInv', UNCHANGED read_version,
         NEW u \in Nat \ {0}, NEW m \in Nat, WindowResolved(u, m)
  PROVE  /\ RefusedSeen \subseteq RefusedSeen'
         /\ (RefusedSeen' \ RefusedSeen) \cap DecidedSeen = {}
         /\ \A q \in 1 .. m : staged_transactions[u + q - 1].id \notin DecidedSeen \cup RefusedSeen'
  <1> DEFINE S == staged_transactions
             T == staged_transactions'
             W == u .. (u + m - 1)
  <1>1. /\ Staged' = Staged /\ \A i \in Staged : T[i].id = S[i].id
        /\ W \subseteq Unresolved /\ Visible' = Visible \cup W /\ Unresolved' \subseteq Unresolved
        /\ Unresolved \subseteq Staged /\ Visible \subseteq Staged
        /\ \A i \in Staged : S[i].status = "aborted" <=> i \notin Visible \cup Unresolved
        /\ \A i \in Staged : T[i].status = "aborted" <=> i \notin Visible' \cup Unresolved'
        /\ Visible \cap Unresolved = {}
    <2>1. /\ Visible \cap Unresolved = {}
          /\ \A i \in Staged : S[i].status = "aborted" <=> i \notin Visible \cup Unresolved
      BY StatusSplit DEF StagedInv
    <2>2. \A i \in Staged' : T[i].status = "aborted" <=> i \notin Visible' \cup Unresolved'
      <3>1. DomainTyped'
        BY DEF StagedInv
      <3>2. \A i \in Staged' : T[i].status \in {"pending", "visible", "aborted"}
        <4>1. \A i \in Staged' : T[i] \in StagedRecords
          BY <3>1 DEF DomainTyped, Staged
        <4>2. \A r \in StagedRecords : r.status \in {"pending", "visible", "aborted"}
          BY DEF StagedRecords
        <4> QED
          BY <4>1, <4>2
      <3> QED
        BY <3>2 DEF Visible, Unresolved
    <2> QED
      BY <2>1, <2>2, WindowIds DEF WindowResolved, Visible, Unresolved
  <1>2. \A i, j \in Staged : S[i].id = S[j].id => i = j
    BY DEF ReadsInv, StagedOnce
  <1> HIDE DEF S, T, W
  <1>3. /\ RefusedSeen = {S[i].id : i \in {i \in Staged : i \notin Visible \cup Unresolved}}
        /\ RefusedSeen' = {S[i].id : i \in {i \in Staged : i \notin Visible' \cup Unresolved'}}
    <2>1. {i \in Staged : S[i].status = "aborted"} = {i \in Staged : i \notin Visible \cup Unresolved}
      BY <1>1
    <2>2. {i \in Staged' : T[i].status = "aborted"} =
             {i \in Staged : i \notin Visible' \cup Unresolved'}
      BY <1>1
    <2>3. RefusedSeen' = {T[i].id : i \in {i \in Staged : i \notin Visible' \cup Unresolved'}}
      BY <2>2 DEF RefusedSeen, T
    <2> QED
      BY <1>1, <2>1, <2>3 DEF RefusedSeen, S
  <1>4. \A h \in {HistorySeen[i] : i \in DOMAIN HistorySeen} : \E i \in Visible : h = S[i].id
    BY CommittedIsVisible DEF HistorySeen, S
  <1>5. RefusedSeen \subseteq RefusedSeen'
    BY <1>1, <1>3
  <1>6. (RefusedSeen' \ RefusedSeen) \cap DecidedSeen = {}
    BY <1>1, <1>2, <1>3, <1>4 DEF DecidedSeen
  <1>7. ASSUME NEW q \in 1 .. m
        PROVE  S[u + q - 1].id \notin DecidedSeen \cup RefusedSeen'
    <2>1. u + q - 1 \in W
      BY DEF W
    <2> DEFINE w == u + q - 1
    <2> HIDE DEF w
    <2>2. w \in W
      BY <2>1 DEF w
    <2>3. S[w].id \notin DecidedSeen \cup RefusedSeen'
      BY <1>1, <1>2, <1>3, <1>4, <2>2 DEF DecidedSeen
    <2> QED
      BY <2>3 DEF w
  <1> QED
    BY <1>5, <1>6, <1>7 DEF S

\* What enters the history finds there what it read.
LEMMA WindowRefines ==
  ASSUME StagedInv, ReadsInv, StagedInv', ReadsInv', UNCHANGED read_version,
         NEW u \in Nat \ {0}, NEW m \in Nat, WindowResolved(u, m)
  PROVE  Serial!SerialNext
  <1> DEFINE H == HistorySeen
             G == HistorySeen'
             R == RefusedSeen
             Q == RefusedSeen'
             B == BeganSeen
             c == Len(committed_envelopes)
  <1>0. /\ DOMAIN committed_envelopes' = 1 .. (c + m)
        /\ \A k \in 1 .. c : committed_envelopes'[k] = committed_envelopes[k]
        /\ \A k \in 1 .. m : /\ u + k - 1 \in Unresolved
                             /\ committed_envelopes'[c + k].id = staged_transactions[u + k - 1].id
    BY WindowIds
  <1>1. /\ c \in Nat /\ H \in Seq(Txns) /\ Len(H) = c /\ DOMAIN H = 1 .. c
        /\ \A k \in 1 .. c : H[k] = committed_envelopes[k].id
    BY HistoryIsSequence, CommittedTyped DEF StagedInv
  <1>2. /\ G \in Seq(Txns) /\ Len(G) = c + m
        /\ \A k \in 1 .. (c + m) : G[k] = committed_envelopes'[k].id
        /\ \A k \in 1 .. c : G[k] = H[k]
        /\ \A q \in 1 .. m : G[c + q] = staged_transactions[u + q - 1].id
    <2>1. Len(committed_envelopes') = c + m /\ committed_envelopes' \in Seq(EnvelopeRecords)
      BY DEF WindowResolved
    <2>2. \A k \in DOMAIN committed_envelopes' : committed_envelopes'[k].id \in Txns
      <3>1. \A k \in DOMAIN committed_envelopes' : committed_envelopes'[k] \in EnvelopeRecords
        BY <2>1
      <3>2. \A e \in EnvelopeRecords : e.id \in Txns
        BY DEF EnvelopeRecords
      <3> QED
        BY <3>1, <3>2
    <2>3. G \in [1 .. (c + m) -> Txns] /\ \A k \in 1 .. (c + m) : G[k] = committed_envelopes'[k].id
      BY <1>0, <2>2 DEF HistorySeen
    <2>4. c + m \in Nat
      BY <1>1
    <2>5. G \in Seq(Txns) /\ Len(G) = c + m
      BY <2>3, <2>4, IntervalSequence
    <2>6. \A k \in 1 .. c : k \in 1 .. (c + m)
      BY <1>1
    <2>7. \A q \in 1 .. m : c + q \in 1 .. (c + m)
      BY <1>1
    <2>8. \A k \in 1 .. c : G[k] = H[k]
      BY <1>0, <1>1, <2>3, <2>6
    <2>9. \A q \in 1 .. m : G[c + q] = staged_transactions[u + q - 1].id
      BY <1>0, <2>3, <2>7
    <2> QED
      BY <2>3, <2>5, <2>8, <2>9
  <1>3. /\ R \subseteq Q /\ (Q \ R) \cap DecidedSeen = {}
        /\ \A q \in 1 .. m : G[c + q] \notin DecidedSeen \cup (Q \ R)
    BY <1>2, WindowDecides
  <1>4. BeganSeen' = B
    BY DEF BeganSeen
  <1>5. \A k \in 1 .. (c + m) :
          /\ B[G[k]] # None
          /\ \A i \in B[G[k]] + 1 .. k - 1 : WriteSet[G[i]] \cap ReadSet[G[k]] = {}
    <2> TAKE k \in 1 .. (c + m)
    <2> DEFINE t == committed_envelopes'[k].id
    <2>1. DOMAIN committed_envelopes' = 1 .. (c + m) /\ G[k] = t /\ t \in Txns
      BY <1>2, WindowIds
    <2>2. /\ read_version[t] # None
          /\ \A j \in 1 .. (c + m) : j > read_version[t].length /\ j < k =>
                WriteSet[committed_envelopes'[j].id] \cap ReadSet[t] = {}
      BY <2>1 DEF ReadsInv, HistoryReadsHold
    <2>3. read_version[t] \in ReadVersions
      BY <2>1, <2>2 DEF ReadsInv
    <2>4. read_version[t].length \in Nat
      BY <2>3 DEF ReadVersions
    <2>5. B[t] = read_version[t].length
      BY <2>1, <2>2 DEF BeganSeen
    <2> HIDE DEF t, B, G
    <2>6. B[t] # None
      BY <2>4, <2>5, CellConstants
    <2>7. ASSUME NEW i \in B[t] + 1 .. k - 1
          PROVE  WriteSet[G[i]] \cap ReadSet[t] = {}
      <3>1. i \in 1 .. (c + m) /\ i > read_version[t].length /\ i < k
        BY <1>1, <2>4, <2>5
      <3> QED
        BY <1>2, <2>2, <3>1
    <2> QED
      BY <2>1, <2>6, <2>7
  <1>6. \A p, q \in 1 .. m : p < q => G[c + p] # G[c + q]
    <2> TAKE p, q \in 1 .. m
    <2>1. u + p - 1 \in Staged /\ u + q - 1 \in Staged
      BY <1>0 DEF Unresolved
    <2>2. p < q => u + p - 1 # u + q - 1
      OBVIOUS
    <2>3. \A i, j \in Staged : staged_transactions[i].id = staged_transactions[j].id => i = j
      BY DEF ReadsInv, StagedOnce
    <2>4. /\ G[c + p] = staged_transactions[u + p - 1].id
          /\ G[c + q] = staged_transactions[u + q - 1].id
      BY <1>2
    <2> QED
      BY <2>1, <2>2, <2>3, <2>4
  <1> HIDE DEF H, G, R, Q, B, c
  <1>7. SubSeq(G, 1, Len(H)) = H /\ Len(H) <= Len(G)
    BY <1>1, <1>2
  <1>8. \A k \in Len(H) + 1 .. Len(G) :
          /\ G[k] \notin DecidedSeen \cup (Q \ R)
          /\ \A j \in Len(H) + 1 .. k - 1 : G[j] # G[k]
          /\ B[G[k]] # None
          /\ \A i \in B[G[k]] + 1 .. k - 1 : WriteSet[G[i]] \cap ReadSet[G[k]] = {}
    <2> TAKE k \in Len(H) + 1 .. Len(G)
    <2>1. k \in 1 .. (c + m) /\ k - c \in 1 .. m /\ k = c + (k - c)
      BY <1>1, <1>2
    <2>2. \A j \in Len(H) + 1 .. k - 1 : j - c \in 1 .. m /\ j = c + (j - c) /\ j - c < k - c
      BY <1>1, <1>2
    <2>3. G[k] \notin DecidedSeen \cup (Q \ R)
      BY <1>3, <2>1
    <2>4. \A j \in Len(H) + 1 .. k - 1 : G[j] # G[k]
      BY <1>6, <2>1, <2>2
    <2> QED
      BY <1>5, <2>1, <2>3, <2>4
  <1>9. Serial!Decide(G, Q \ R)
    <2>1. Q = R \cup (Q \ R)
      BY <1>3
    <2> QED
      BY <1>3, <1>4, <1>7, <1>8, <2>1
      DEF Serial!Decide, Serial!ReadsStillHold, Serial!Decided, DecidedSeen, H, G, R, Q, B,
          HistorySeen, RefusedSeen, BeganSeen
  <1> QED
    BY <1>9 DEF Serial!SerialNext, G, Q, R, HistorySeen, RefusedSeen

\* A client that asks for a read version begins its transaction.
LEMMA AskRefines ==
  ASSUME StagedInv, ReadsInv, NEW t \in Txns, GetReadVersion(t)
  PROVE  Serial!SerialNext
  <1> DEFINE v == [generation |-> domain_generation, sequence |-> latest_sequence,
                   length |-> Len(committed_envelopes)]
  <1>1. /\ ~ IsStaged(t) /\ ~ IsCommitted(t)
        /\ UNCHANGED << committed_envelopes, staged_transactions >>
        /\ read_version' = [read_version EXCEPT ![t] = v]
    BY DEF GetReadVersion, domainVars
  <1>2. /\ v.length = Len(HistorySeen) /\ v # None
        /\ read_version \in [Txns -> ReadVersions \cup {None}]
    <2>1. v \in [generation : Nat, sequence : Nat, length : Nat]
      BY CommittedTyped DEF StagedInv, DomainTyped
    <2> QED
      BY <2>1, CellConstants, HistoryIsSequence DEF StagedInv, ReadsInv
  <1>3. t \notin DecidedSeen
    <2>1. t \notin RefusedSeen
      BY <1>1 DEF RefusedSeen, IsStaged
    <2>2. \A i \in DOMAIN HistorySeen : HistorySeen[i] # t
      BY <1>1 DEF HistorySeen, IsCommitted
    <2> QED
      BY <2>1, <2>2 DEF DecidedSeen
  <1>4. HistorySeen' = HistorySeen /\ RefusedSeen' = RefusedSeen
    BY <1>1 DEF HistorySeen, RefusedSeen, Staged
  <1> HIDE DEF v
  <1>5. BeganSeen' = [BeganSeen EXCEPT ![t] = Len(HistorySeen)]
    BY <1>1, <1>2 DEF BeganSeen
  <1>6. Serial!Begin(t)
    BY <1>3, <1>4, <1>5
    DEF Serial!Begin, Serial!Decided, DecidedSeen, HistorySeen, RefusedSeen, BeganSeen
  <1> QED
    BY <1>6 DEF Serial!SerialNext

\* Staging decides nothing yet.
LEMMA StageStutters ==
  ASSUME StagedInv, UNCHANGED << committed_envelopes, read_version >>,
         Staged' = 1 .. (Len(staged_transactions) + 1),
         \A i \in Staged : staged_transactions'[i] = staged_transactions[i],
         staged_transactions'[Len(staged_transactions) + 1].status = "pending"
  PROVE  UNCHANGED Serial!serialVars
  <1> DEFINE n == Len(staged_transactions)
  <1>1. n \in Nat /\ Staged = 1 .. n
    BY StagedTyped DEF StagedInv
  <1>2. \A i \in 1 .. (n + 1) : i \in 1 .. n \/ i = n + 1
    BY <1>1
  <1>3. {i \in Staged' : staged_transactions'[i].status = "aborted"} =
           {i \in Staged : staged_transactions[i].status = "aborted"}
    BY <1>1, <1>2
  <1>4. RefusedSeen' = RefusedSeen
    BY <1>3 DEF RefusedSeen
  <1>5. HistorySeen' = HistorySeen /\ BeganSeen' = BeganSeen
    BY DEF HistorySeen, BeganSeen
  <1> QED
    BY <1>4, <1>5 DEF Serial!serialVars, RefusedSeen, HistorySeen, BeganSeen

SerialInv == GenerationInv /\ DecisionInv /\ StagedInv /\ ReadsInv

\* A step that touches neither the domain nor the read versions.
LEMMA ReadsKept ==
  ASSUME ReadsInv, UNCHANGED << domainVars, read_version >>
  PROVE  ReadsInv' /\ UNCHANGED Serial!serialVars
  <1>1. UNCHANGED << committed_envelopes, staged_transactions, latest_sequence, read_version >>
    BY DEF domainVars
  <1>2. Staged' = Staged /\ Unresolved' = Unresolved
    BY <1>1 DEF Staged, Unresolved
  <1>3. StagedOnce' /\ SnapshotsArePrefixes'
    BY <1>1, <1>2 DEF ReadsInv, StagedOnce, SnapshotsArePrefixes
  <1>4. PendingReadsHold' /\ HistoryReadsHold'
    BY <1>1, <1>2 DEF ReadsInv, PendingReadsHold, HistoryReadsHold
  <1>5. UNCHANGED Serial!serialVars
    BY <1>1, <1>2 DEF Serial!serialVars
  <1> QED
    BY <1>1, <1>3, <1>4, <1>5 DEF ReadsInv

\* Every step of the staged path keeps the invariant and is a step of the serial
\* history, or changes nothing of it.
LEMMA SerialStep ==
  ASSUME Resolutions \subseteq {None}, SerialInv, [StagedPathNext]_<< authority, cellVars >>
  PROVE  SerialInv' /\ [Serial!SerialNext]_(Serial!serialVars)
  <1>0. GenerationInv /\ DecisionInv /\ StagedInv /\ ReadsInv
    BY DEF SerialInv
  <1>1. GenerationInv' /\ DecisionInv' /\ StagedInv'
    BY <1>0, StagedPathInv
  <1>2. CASE UNCHANGED << authority, cellVars >>
    <2>1. UNCHANGED << domainVars, read_version >>
      BY <1>2 DEF cellVars
    <2> QED
      BY <1>0, <1>1, <2>1, ReadsKept DEF SerialInv
  <1>3. CASE StagedPathNext
    <2>1. CASE \E t \in Txns : GetReadVersion(t)
      BY <1>0, <1>1, <2>1, AskReads, AskRefines DEF SerialInv
    <2>2. CASE UNCHANGED read_version
      <3>1. CASE UNCHANGED domainVars
        BY <1>0, <1>1, <2>2, <3>1, ReadsKept DEF SerialInv
      <3>2. ASSUME NEW t \in Txns, NEW resolution \in Resolutions, Stage(t, resolution)
            PROVE  ReadsInv' /\ UNCHANGED Serial!serialVars
        <4>1. resolution = None
          OBVIOUS
        <4>2. authority \in AuthorityType
          BY <1>0 DEF GenerationInv, GenerationTypeOK
        <4>3. /\ staged_transactions' \in Seq(StagedRecords)
              /\ Len(staged_transactions') = Len(staged_transactions) + 1
              /\ \A i \in Staged : staged_transactions'[i] = staged_transactions[i]
              /\ staged_transactions'[Len(staged_transactions) + 1].status = "pending"
          BY <1>0, <3>2, <4>2, StageStep
        <4>4. ReadsInv'
          BY <1>0, <3>2, <4>1, <4>3, StageReads
        <4>5. UNCHANGED committed_envelopes
          BY <3>2 DEF Stage
        <4>6. Staged' = 1 .. (Len(staged_transactions) + 1)
          BY <4>3 DEF Staged
        <4> QED
          BY <1>0, <2>2, <4>3, <4>4, <4>5, <4>6, StageStutters
      <3>3. ASSUME NEW u \in Nat \ {0}, NEW m \in Nat, WindowResolved(u, m)
            PROVE  ReadsInv' /\ Serial!SerialNext
        <4>1. ReadsInv'
          BY <1>0, <2>2, <3>3, WindowReads
        <4> QED
          BY <1>0, <1>1, <2>2, <3>3, <4>1, WindowRefines
      <3> QED
        BY <1>0, <1>1, <1>3, <3>1, <3>2, <3>3, StagedPathStep DEF SerialInv
    <2> QED
      BY <1>3, <2>1, <2>2, ReadVersionStep
  <1> QED
    BY <1>2, <1>3

\* A domain starts with an empty history and nothing staged.
LEMMA SerialStart ==
  ASSUME CellInit
  PROVE  SerialInv /\ Serial!SerialInit
  <1>1. GenerationInv /\ DecisionInv /\ StagedInv
    BY CellInitInv
  <1>2. /\ committed_envelopes = << >> /\ staged_transactions = << >>
        /\ read_version = [t \in Txns |-> None]
    BY DEF CellInit
  <1>3. Staged = {} /\ DOMAIN committed_envelopes = {}
    BY <1>2 DEF Staged
  <1>4. ReadsInv
    BY <1>2, <1>3 DEF ReadsInv, StagedOnce, SnapshotsArePrefixes, PendingReadsHold,
                      HistoryReadsHold, Unresolved
  <1>5. Serial!SerialInit
    BY <1>2, <1>3 DEF Serial!SerialInit
  <1> QED
    BY <1>1, <1>4, <1>5 DEF SerialInv

-----------------------------------------------------------------------------
\* The invariant of the staged path with its reads.
THEOREM SerialInvariance ==
  ASSUME Resolutions \subseteq {None}
  PROVE  StagedPathSpec => []SerialInv
  <1>1. CellInit => SerialInv
    BY SerialStart
  <1>2. SerialInv /\ [StagedPathNext]_<< authority, cellVars >> => SerialInv'
    BY SerialStep
  <1> QED
    BY <1>1, <1>2, PTL DEF StagedPathSpec

\* No update is lost: a committed transaction read nothing that a transaction
\* between its read version and its place in the history wrote, whichever process
\* resolved it.  The authority must look for conflicts itself (no resolution) and
\* the clients must stage.
THEOREM NoLostUpdate ==
  ASSUME Resolutions \subseteq {None}
  PROVE  StagedPathSpec => []SerializableReads
  <1>1. SerialInv => SerializableReads
    <2> SUFFICES ASSUME SerialInv, NEW k \in DOMAIN committed_envelopes
                 PROVE  LET t == committed_envelopes[k].id IN
                        \A i \in read_version[t].length + 1 .. k - 1 :
                           WriteSet[committed_envelopes[i].id] \cap ReadSet[t] = {}
      BY DEF SerializableReads
    <2> DEFINE t == committed_envelopes[k].id
               c == Len(committed_envelopes)
    <2>1. c \in Nat /\ DOMAIN committed_envelopes = 1 .. c /\ t \in Txns
      BY CommittedTyped DEF SerialInv, StagedInv
    <2>2. /\ read_version[t] # None
          /\ \A j \in 1 .. c : j > read_version[t].length /\ j < k =>
                WriteSet[committed_envelopes[j].id] \cap ReadSet[t] = {}
      BY <2>1 DEF SerialInv, ReadsInv, HistoryReadsHold
    <2>3. read_version[t] \in ReadVersions
      BY <2>1, <2>2 DEF SerialInv, ReadsInv
    <2>4. read_version[t].length \in Nat
      BY <2>3 DEF ReadVersions
    <2> HIDE DEF t, c
    <2>5. \A i \in read_version[t].length + 1 .. k - 1 :
             i \in 1 .. c /\ i > read_version[t].length /\ i < k
      BY <2>1, <2>4
    <2>6. \A i \in read_version[t].length + 1 .. k - 1 :
             WriteSet[committed_envelopes[i].id] \cap ReadSet[t] = {}
      BY <2>2, <2>5
    <2> QED
      BY <2>6 DEF t
  <1> QED
    BY <1>1, SerialInvariance, PTL

\* No transaction is in the committed history twice, when a controller names only
\* unresolved transactions to a takeover.
THEOREM StagedAppliedOnce ==
  ASSUME Resolutions \subseteq {None}
  PROVE  StagedPathSpec => []AppliedOnce
  <1>1. SerialInv => AppliedOnce
    <2> SUFFICES ASSUME SerialInv, NEW i \in DOMAIN committed_envelopes,
                        NEW j \in DOMAIN committed_envelopes,
                        committed_envelopes[i].id = committed_envelopes[j].id
                 PROVE  i = j
      BY DEF AppliedOnce
    <2>1. StagedInv /\ StagedOnce /\ i \in Nat /\ j \in Nat
      BY CommittedTyped DEF SerialInv, ReadsInv, StagedInv
    <2>2. ~ (i < j) /\ ~ (j < i)
      BY <2>1, CommittedOnce
    <2> QED
      BY <2>1, <2>2
  <1> QED
    BY <1>1, SerialInvariance, PTL

\* The authority of a domain implements the serial history of RFC-0008: one history
\* that only grows, each transaction decided at most once, each committed one where
\* its reads still hold, one decision of several transactions at a recovery.
THEOREM StagedPathImplementsSerialHistory ==
  ASSUME Resolutions \subseteq {None}
  PROVE  StagedPathSpec => ImplementsSerialHistory
  <1>1. CellInit => Serial!SerialInit
    BY SerialStart
  <1>2. SerialInv /\ [StagedPathNext]_<< authority, cellVars >> =>
           [Serial!SerialNext]_(Serial!serialVars)
    BY SerialStep
  <1> QED
    BY <1>1, <1>2, SerialInvariance, PTL
    DEF StagedPathSpec, ImplementsSerialHistory, Serial!SerialSpec
=============================================================================
