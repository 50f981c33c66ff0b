-------------------------- MODULE CommitPathProofs --------------------------
(***************************************************************************)
(* Theorems about the commit path, for every number of members, log sets,  *)
(* transactions, generations and log records: what a client can read is    *)
(* held by a quorum of every log set, and what a takeover aborted can      *)
(* never reach one, however late an append or a fence arrives.             *)
(***************************************************************************)
EXTENDS CommitPath, CellTransactionProofs

\* Policies are installed from the constants, so that every quorum that signs is a
\* quorum of the same members.
PoliciesFixed ==
    \A set \in LogSets : log_set_policies[set] # None =>
       /\ log_set_policies[set].members = PolicyMembers[set]
       /\ log_set_policies[set].quorum = PolicyQuorum[set]

\* The members' durable files, and the generations their fences are kept by.
MembersTyped ==
    /\ log \in [TLogs -> Seq(Nat)]
    /\ fence \in [TLogs -> [Generations -> [recovery : RecoveryIds, head : Nat] \cup {None}]]
    /\ prefix_fence \in [TLogs -> [Generations ->
          [recovery : RecoveryIds, window : SUBSET Nat] \cup {None}]]
    /\ authority.generation \in Generations
    /\ domain_generation \in 1 .. authority.generation
    /\ \A i \in Staged : staged_transactions[i].generation \in Generations

\* Every transaction of this path goes by certificates.
NoReceipts == \A i \in Staged : staged_transactions[i].receipts = {}

\* A recorded certificate is backed by a quorum that holds the record.
CertifiedIsHeld ==
    \A i \in Staged : \A set \in staged_transactions[i].certificates :
       held_by_quorum(i, set)

\* An aborted record, or an earlier aborted one, lacks a certificate and can no
\* longer reach a quorum.
BlockedBy(i, j) ==
    /\ staged_transactions[j].status = "aborted"
    /\ staged_transactions[j].generation = staged_transactions[i].generation
    /\ staged_transactions[j].certificates # LogSets
    /\ \E set \in LogSets : Cardinality(MayHold(j, set)) < PolicyQuorum[set]

AbortedIsBlocked ==
    \A i \in Staged : staged_transactions[i].status = "aborted" =>
       \E j \in 1 .. i : BlockedBy(i, j)

DurabilityInv ==
    /\ PoliciesFixed /\ MembersTyped /\ NoReceipts
    /\ CertifiedIsHeld /\ VisibleIsDurable /\ AbortedIsBlocked

\* The constants of one log set.
LEMMA LogSetConstants ==
  ASSUME NEW set \in LogSets
  PROVE  /\ PolicyMembers[set] \in SUBSET TLogs
         /\ IsFiniteSet(PolicyMembers[set])
         /\ PolicyQuorum[set] \in Nat \ {0}
         /\ 2 * PolicyQuorum[set] > Cardinality(PolicyMembers[set])
  BY CellConstants, CommitPathConstants

\* What a step of the path does to the records and the logs.
LogsGrow ==
    /\ \A n \in TLogs : Held(n) \subseteq Held(n)'
    /\ \A j \in Staged, set \in LogSets : MayHold(j, set)' \subseteq MayHold(j, set)

RecordsKept ==
    /\ Staged \subseteq Staged'
    /\ \A j \in Staged :
          /\ staged_transactions'[j].generation = staged_transactions[j].generation
          /\ staged_transactions[j].status = "aborted" =>
                /\ staged_transactions'[j].status = "aborted"
                /\ staged_transactions'[j].certificates = staged_transactions[j].certificates

\* What the step adds: a certificate or a visible record is held by a quorum, and
\* an aborted record is blocked.
AddedCertified ==
    \A j \in Staged' : \A set \in staged_transactions'[j].certificates :
       /\ j \in Staged /\ set \in LogSets
       /\ set \in staged_transactions[j].certificates \/ held_by_quorum(j, set)

AddedVisible ==
    \A j \in Staged' : staged_transactions'[j].status = "visible" =>
       /\ j \in Staged
       /\ \/ staged_transactions[j].status = "visible"
          \/ \A set \in LogSets : held_by_quorum(j, set)

AddedAborted ==
    \A i \in Staged' : staged_transactions'[i].status = "aborted" =>
       /\ i \in Staged
       /\ \/ staged_transactions[i].status = "aborted"
          \/ \E j \in 1 .. i :
                /\ staged_transactions'[j].status = "aborted"
                /\ staged_transactions'[j].generation = staged_transactions'[i].generation
                /\ staged_transactions'[j].certificates # LogSets
                /\ \E set \in LogSets : Cardinality(MayHold(j, set)) < PolicyQuorum[set]

\* A record that a quorum holds stays held by it.
LEMMA HeldStays ==
  ASSUME LogsGrow, NEW i, NEW set \in LogSets, held_by_quorum(i, set)
  PROVE  held_by_quorum(i, set)'
  <1> DEFINE M == PolicyMembers[set]
             A == {n \in M : i \in Held(n)'}
             B == {n \in M : i \in Held(n)}
  <1>1. M \in SUBSET TLogs /\ IsFiniteSet(M) /\ PolicyQuorum[set] \in Nat
    BY LogSetConstants
  <1>2. A \in SUBSET M /\ B \in SUBSET A
    BY <1>1 DEF LogsGrow
  <1>3. Cardinality(B) >= PolicyQuorum[set]
    BY DEF held_by_quorum
  <1>4. Cardinality(A) \in Nat /\ Cardinality(B) \in Nat /\ Cardinality(B) <= Cardinality(A)
    BY <1>1, <1>2, MoreMembers
  <1>5. Cardinality(A) >= PolicyQuorum[set]
    BY <1>1, <1>3, <1>4
  <1> QED
    BY <1>5 DEF held_by_quorum

\* A record that cannot reach a quorum of a log set never will.
LEMMA BlockedStays ==
  ASSUME LogsGrow, NEW j \in Staged, NEW set \in LogSets,
         Cardinality(MayHold(j, set)) < PolicyQuorum[set]
  PROVE  Cardinality(MayHold(j, set)') < PolicyQuorum[set]
  <1> DEFINE A == MayHold(j, set)
             B == MayHold(j, set)'
  <1>1. IsFiniteSet(PolicyMembers[set]) /\ PolicyQuorum[set] \in Nat
    BY LogSetConstants
  <1>2. A \in SUBSET PolicyMembers[set] /\ B \in SUBSET A
    BY DEF LogsGrow, MayHold
  <1> HIDE DEF A, B
  <1>3. Cardinality(A) \in Nat /\ Cardinality(B) \in Nat /\ Cardinality(B) <= Cardinality(A)
    BY <1>1, <1>2, MoreMembers
  <1> QED
    BY <1>1, <1>3 DEF A, B

\* A step that only adds what is held and blocked keeps the durability invariant.
LEMMA DurabilityKept ==
  ASSUME DomainTyped, CertifiedIsHeld, VisibleIsDurable, AbortedIsBlocked,
         LogsGrow, RecordsKept, AddedCertified, AddedVisible, AddedAborted
  PROVE  CertifiedIsHeld' /\ VisibleIsDurable' /\ AbortedIsBlocked'
  <1> DEFINE S == staged_transactions
             T == staged_transactions'
             n == Len(staged_transactions)
  <1>1. n \in Nat /\ Staged = 1 .. n /\ \A j \in Staged : S[j].certificates \subseteq LogSets
    BY StagedTyped
  <1>2. CertifiedIsHeld'
    <2> SUFFICES ASSUME NEW j \in Staged', NEW set \in T[j].certificates
                 PROVE  held_by_quorum(j, set)'
      BY DEF CertifiedIsHeld
    <2>1. /\ j \in Staged /\ set \in LogSets
          /\ set \in S[j].certificates \/ held_by_quorum(j, set)
      BY DEF AddedCertified
    <2>2. held_by_quorum(j, set)
      BY <2>1 DEF CertifiedIsHeld
    <2> QED
      BY <2>1, <2>2, HeldStays
  <1>3. VisibleIsDurable'
    <2> SUFFICES ASSUME NEW j \in Staged', T[j].status = "visible", NEW set \in LogSets
                 PROVE  held_by_quorum(j, set)'
      BY DEF VisibleIsDurable
    <2>1. held_by_quorum(j, set)
      BY DEF AddedVisible, VisibleIsDurable
    <2> QED
      BY <2>1, HeldStays
  <1>4. AbortedIsBlocked'
    <2> SUFFICES ASSUME NEW i \in Staged', T[i].status = "aborted"
                 PROVE  \E j \in 1 .. i : BlockedBy(i, j)'
      BY DEF AbortedIsBlocked
    <2>1. i \in 1 .. n /\ i \in Staged /\ T[i].generation = S[i].generation
      BY <1>1 DEF AddedAborted, RecordsKept
    <2>2. ASSUME NEW j \in 1 .. i, T[j].status = "aborted", T[j].generation = T[i].generation,
                 T[j].certificates # LogSets,
                 \E set \in LogSets : Cardinality(MayHold(j, set)) < PolicyQuorum[set]
          PROVE  BlockedBy(i, j)'
      <3>1. j \in Staged
        BY <1>1, <2>1
      <3>2. \E set \in LogSets : Cardinality(MayHold(j, set)') < PolicyQuorum[set]
        BY <2>2, <3>1, BlockedStays
      <3> QED
        BY <2>2, <3>2 DEF BlockedBy
    <2>3. CASE S[i].status = "aborted"
      <3>1. PICK j \in 1 .. i : BlockedBy(i, j)
        BY <2>1, <2>3 DEF AbortedIsBlocked
      <3>2. j \in Staged
        BY <1>1, <2>1
      <3>3. /\ T[j].status = "aborted" /\ T[j].certificates = S[j].certificates
            /\ T[j].generation = S[j].generation
        BY <3>1, <3>2 DEF BlockedBy, RecordsKept
      <3>4. BlockedBy(i, j)'
        BY <3>1, <3>3, <2>1, <2>2 DEF BlockedBy
      <3> QED
        BY <3>4
    <2>4. CASE S[i].status # "aborted"
      <3>1. PICK j \in 1 .. i :
                /\ T[j].status = "aborted" /\ T[j].generation = T[i].generation
                /\ T[j].certificates # LogSets
                /\ \E set \in LogSets : Cardinality(MayHold(j, set)) < PolicyQuorum[set]
        BY <2>4 DEF AddedAborted
      <3>2. BlockedBy(i, j)'
        BY <3>1, <2>2
      <3> QED
        BY <3>2
    <2> QED
      BY <2>3, <2>4
  <1> QED
    BY <1>2, <1>3, <1>4

\* An append adds one record to one log, where no fence of its generation is.
LEMMA AppendGrows ==
  ASSUME MembersTyped, DomainTyped, NEW n \in TLogs, NEW i \in Staged, TLogAppend(n, i)
  PROVE  /\ LogsGrow
         /\ log' \in [TLogs -> Seq(Nat)]
  <1>1. i \in Nat /\ log \in [TLogs -> Seq(Nat)] /\ log[n] \in Seq(Nat)
    BY StagedTyped DEF MembersTyped
  <1>2. /\ log' = [log EXCEPT ![n] = Append(log[n], i)]
        /\ UNCHANGED << fence, prefix_fence, staged_transactions >>
        /\ ~ fenced(n, staged_transactions[i].generation)
    BY DEF TLogAppend, cellVars, domainVars
  <1>3. Append(log[n], i) \in Seq(Nat)
    BY <1>1
  <1>4. log' \in [TLogs -> Seq(Nat)] /\ log'[n] = Append(log[n], i)
        /\ \A m \in TLogs : m # n => log'[m] = log[m]
    BY <1>1, <1>2, <1>3
  <1>5. {log'[n][p] : p \in DOMAIN log'[n]} = Held(n) \cup {i}
    <2> DEFINE s == log[n]
    <2>1. /\ DOMAIN s = 1 .. Len(s) /\ Len(s) \in Nat
          /\ DOMAIN Append(s, i) = 1 .. (Len(s) + 1)
          /\ Append(s, i)[Len(s) + 1] = i
          /\ \A p \in 1 .. Len(s) : Append(s, i)[p] = s[p]
      BY <1>1
    <2> HIDE DEF s
    <2>2. \A p \in 1 .. (Len(s) + 1) : p \in 1 .. Len(s) \/ p = Len(s) + 1
      BY <2>1
    <2>3. {Append(s, i)[p] : p \in DOMAIN Append(s, i)} =
             {s[p] : p \in DOMAIN s} \cup {i}
      <3>1. ASSUME NEW p \in DOMAIN Append(s, i)
            PROVE  Append(s, i)[p] \in {s[q] : q \in DOMAIN s} \cup {i}
        BY <2>1, <2>2
      <3>2. ASSUME NEW q \in DOMAIN s
            PROVE  s[q] \in {Append(s, i)[p] : p \in DOMAIN Append(s, i)}
        BY <2>1
      <3>3. i \in {Append(s, i)[p] : p \in DOMAIN Append(s, i)}
        BY <2>1
      <3> QED
        BY <3>1, <3>2, <3>3, Zenon
    <2> QED
      BY <2>3, <1>4 DEF Held, s
  <1>6. Held(n)' = Held(n) \cup {i} /\ \A m \in TLogs : m # n => Held(m)' = Held(m)
    BY <1>4, <1>5 DEF Held
  <1>7. \A m \in TLogs : Held(m) \subseteq Held(m)'
    BY <1>6
  <1>8. ASSUME NEW j \in Staged, NEW set \in LogSets PROVE MayHold(j, set)' \subseteq MayHold(j, set)
    <2> SUFFICES ASSUME NEW m \in MayHold(j, set)' PROVE m \in MayHold(j, set)
      OBVIOUS
    <2>1. m \in PolicyMembers[set] /\ m \in TLogs
      BY LogSetConstants DEF MayHold
    <2>2. CASE j \in Held(m)' /\ j \notin Held(m)
      <3>1. m = n /\ j = i
        BY <1>6, <2>1, <2>2
      <3> QED
        BY <3>1, <2>1, <1>2 DEF MayHold, fenced
    <2>3. CASE j \in Held(m)
      BY <2>1, <2>3 DEF MayHold
    <2>4. CASE j \notin Held(m)'
      <3>1. LET g == staged_transactions[j].generation IN
            fence[m][g] = None /\ prefix_fence[m][g] = None
        BY <2>4, <1>2 DEF MayHold
      <3> QED
        BY <3>1, <2>1 DEF MayHold
    <2> QED
      BY <2>2, <2>3, <2>4
  <1> QED
    BY <1>4, <1>7, <1>8 DEF LogsGrow

\* A fence statement is not the absence of one.
LEMMA StatementIsNotNone ==
  ASSUME NEW recovery \in RecoveryIds
  PROVE  /\ \A head \in Nat : /\ [recovery |-> recovery, head |-> head] # None
                              /\ [recovery |-> recovery, head |-> head] \in
                                    [recovery : RecoveryIds, head : Nat]
         /\ \A window \in SUBSET Nat :
               /\ [recovery |-> recovery, window |-> window] # None
               /\ [recovery |-> recovery, window |-> window] \in
                     [recovery : RecoveryIds, window : SUBSET Nat]
  BY CommitPathConstants

\* A fence only takes appends away.
LEMMA FenceGrows ==
  ASSUME MembersTyped, DomainTyped, NEW n \in TLogs, NEW i \in Staged,
         NEW recovery \in RecoveryIds \cup {None}, TLogFence(n, recovery, i)
  PROVE  LogsGrow /\ MembersTyped'
  <1> DEFINE g == staged_transactions[i].generation
             statement == [recovery |-> recovery, head |-> i]
             Statements == [recovery : RecoveryIds, head : Nat] \cup {None}
  <1>1. /\ g \in Generations /\ i \in Nat
        /\ fence \in [TLogs -> [Generations -> Statements]]
        /\ \A j \in Staged : staged_transactions[j].generation \in Generations
    BY StagedTyped DEF MembersTyped
  <1>2. /\ fence' = [fence EXCEPT ![n][g] = statement] /\ recovery \in RecoveryIds
        /\ UNCHANGED << authority, domain_generation, staged_transactions, log, prefix_fence >>
    BY DEF TLogFence, names_recovery, cellVars, domainVars
  <1>3. statement \in Statements /\ statement # None
    BY <1>1, <1>2, StatementIsNotNone
  <1> HIDE DEF g, statement, Statements
  <1>4. /\ fence' \in [TLogs -> [Generations -> Statements]]
        /\ \A m \in TLogs, h \in Generations :
              fence'[m][h] = IF m = n /\ h = g THEN statement ELSE fence[m][h]
    BY <1>1, <1>2, <1>3
  <1>5. \A m \in TLogs : Held(m)' = Held(m)
    BY <1>2 DEF Held
  <1>6. ASSUME NEW j \in Staged, NEW set \in LogSets
        PROVE  MayHold(j, set)' \subseteq MayHold(j, set)
    <2> SUFFICES ASSUME NEW m \in MayHold(j, set)' PROVE m \in MayHold(j, set)
      OBVIOUS
    <2>1. m \in PolicyMembers[set] /\ m \in TLogs
      BY LogSetConstants DEF MayHold
    <2>2. CASE j \in Held(m)
      BY <2>1, <2>2 DEF MayHold
    <2>3. CASE j \notin Held(m)
      <3>1. /\ fence'[m][staged_transactions[j].generation] = None
            /\ prefix_fence[m][staged_transactions[j].generation] = None
        BY <2>1, <2>3, <1>2, <1>5 DEF MayHold
      <3>2. fence[m][staged_transactions[j].generation] = None
        BY <3>1, <2>1, <1>1, <1>3, <1>4
      <3> QED
        BY <3>1, <3>2, <2>1 DEF MayHold
    <2> QED
      BY <2>2, <2>3
  <1>7. LogsGrow
    BY <1>5, <1>6 DEF LogsGrow
  <1>8. MembersTyped'
    BY <1>2, <1>4 DEF MembersTyped, Statements, Staged
  <1> QED
    BY <1>7, <1>8

\* A prefix fence only takes appends away.
LEMMA PrefixFenceGrows ==
  ASSUME MembersTyped, DomainTyped, NEW n \in TLogs, NEW window \in SUBSET Staged,
         NEW recovery \in RecoveryIds \cup {None}, TLogPrefixFence(n, recovery, window)
  PROVE  LogsGrow /\ MembersTyped'
  <1> DEFINE g == domain_generation
             statement == [recovery |-> recovery, window |-> window]
             Statements == [recovery : RecoveryIds, window : SUBSET Nat] \cup {None}
  <1>1. /\ g \in Generations /\ window \in SUBSET Nat
        /\ prefix_fence \in [TLogs -> [Generations -> Statements]]
        /\ \A j \in Staged : staged_transactions[j].generation \in Generations
    <2>1. g \in Nat /\ 1 <= g /\ g <= MaxGeneration
      BY GenerationConstants DEF MembersTyped, Generations
    <2>2. window \in SUBSET Nat
      BY StagedTyped
    <2> QED
      BY <2>1, <2>2, GenerationConstants DEF MembersTyped, Generations
  <1>2. /\ prefix_fence' = [prefix_fence EXCEPT ![n][g] = statement] /\ recovery \in RecoveryIds
        /\ UNCHANGED << authority, domain_generation, staged_transactions, log, fence >>
    BY DEF TLogPrefixFence, names_recovery, cellVars, domainVars
  <1>3. statement \in Statements /\ statement # None
    BY <1>1, <1>2, StatementIsNotNone
  <1> HIDE DEF g, statement, Statements
  <1>4. /\ prefix_fence' \in [TLogs -> [Generations -> Statements]]
        /\ \A m \in TLogs, h \in Generations :
              prefix_fence'[m][h] = IF m = n /\ h = g THEN statement ELSE prefix_fence[m][h]
    BY <1>1, <1>2, <1>3
  <1>5. \A m \in TLogs : Held(m)' = Held(m)
    BY <1>2 DEF Held
  <1>6. ASSUME NEW j \in Staged, NEW set \in LogSets
        PROVE  MayHold(j, set)' \subseteq MayHold(j, set)
    <2> SUFFICES ASSUME NEW m \in MayHold(j, set)' PROVE m \in MayHold(j, set)
      OBVIOUS
    <2>1. m \in PolicyMembers[set] /\ m \in TLogs
      BY LogSetConstants DEF MayHold
    <2>2. CASE j \in Held(m)
      BY <2>1, <2>2 DEF MayHold
    <2>3. CASE j \notin Held(m)
      <3>1. /\ prefix_fence'[m][staged_transactions[j].generation] = None
            /\ fence[m][staged_transactions[j].generation] = None
        BY <2>1, <2>3, <1>2, <1>5 DEF MayHold
      <3>2. prefix_fence[m][staged_transactions[j].generation] = None
        BY <3>1, <2>1, <1>1, <1>3, <1>4
      <3> QED
        BY <3>1, <3>2, <2>1 DEF MayHold
    <2> QED
      BY <2>2, <2>3
  <1>7. LogsGrow
    BY <1>5, <1>6 DEF LogsGrow
  <1>8. MembersTyped'
    BY <1>2, <1>4 DEF MembersTyped, Statements, Staged
  <1> QED
    BY <1>7, <1>8

\* A certificate is recorded from members that hold the record.
LEMMA CertifyHolds ==
  ASSUME PoliciesFixed, NEW i \in Staged, NEW set \in LogSets, NEW position,
         LET signers == {n \in PolicyMembers[set] : attests(n, i, position)} IN
         RecordLogCertificate(i, set, signers)
  PROVE  held_by_quorum(i, set)
  <1> DEFINE M == PolicyMembers[set]
             A == {n \in M : i \in Held(n)}
             B == {n \in M : attests(n, i, position)}
  <1>1. Cardinality(B) >= PolicyQuorum[set]
    BY DEF RecordLogCertificate, verify_tagged_log_certificate, certifies, PoliciesFixed
  <1>2. B \in SUBSET A /\ A \in SUBSET M
    BY DEF attests, Held
  <1>3. IsFiniteSet(M) /\ PolicyQuorum[set] \in Nat
    BY LogSetConstants
  <1>4. Cardinality(A) \in Nat /\ Cardinality(B) \in Nat /\ Cardinality(B) <= Cardinality(A)
    BY <1>2, <1>3, MoreMembers
  <1>5. Cardinality(A) >= PolicyQuorum[set]
    BY <1>1, <1>3, <1>4
  <1> QED
    BY <1>5 DEF held_by_quorum

\* The certificates that a controller assembles.
LEMMA SignersAreMembers ==
  ASSUME PoliciesFixed, NEW signers \in Quorums, NEW set \in LogSets
  PROVE  /\ signers[set] \in SUBSET PolicyMembers[set]
         /\ signers[set] \in SUBSET TLogs
         /\ log_set_policies[set].quorum = PolicyQuorum[set]
  <1>1. /\ signers[set] \in SUBSET TLogs /\ log_set_policies[set] # None
        /\ certifies(signers[set], log_set_policies[set])
    BY DEF Quorums, SignerSets
  <1>2. /\ signers[set] \in SUBSET PolicyMembers[set]
        /\ log_set_policies[set].quorum = PolicyQuorum[set]
    BY <1>1 DEF PoliciesFixed, certifies
  <1> QED
    BY <1>1, <1>2

\* What a quorum of a log set was seen to hold is durable there.
LEMMA PresentIsHeld ==
  ASSUME PoliciesFixed, NEW signers \in Quorums, NEW set \in LogSets, NEW i,
         present_quorum(i, SeenBy(signers, [n \in TLogs |-> Held(n)]), set)
  PROVE  held_by_quorum(i, set)
  <1> DEFINE M == PolicyMembers[set]
             A == {n \in M : i \in Held(n)}
             f == SeenBy(signers, [n \in TLogs |-> Held(n)])[set]
             B == {n \in DOMAIN f : i \in f[n]}
  <1>1. /\ signers[set] \in SUBSET M /\ signers[set] \in SUBSET TLogs
        /\ log_set_policies[set].quorum = PolicyQuorum[set]
        /\ DOMAIN f = signers[set]
        /\ \A n \in signers[set] : f[n] = Held(n)
    BY SignersAreMembers DEF SeenBy
  <1>2. Cardinality(B) >= PolicyQuorum[set]
    BY <1>1 DEF present_quorum
  <1> HIDE DEF f
  <1>3. B \in SUBSET A /\ A \in SUBSET M
    BY <1>1
  <1>4. IsFiniteSet(M) /\ PolicyQuorum[set] \in Nat
    BY LogSetConstants
  <1>5. Cardinality(A) \in Nat /\ Cardinality(B) \in Nat /\ Cardinality(B) <= Cardinality(A)
    BY <1>3, <1>4, MoreMembers
  <1>6. Cardinality(A) >= PolicyQuorum[set]
    BY <1>2, <1>4, <1>5
  <1> QED
    BY <1>6 DEF held_by_quorum

\* A quorum that fenced the generation of a record without holding it leaves too
\* few members that hold it or may still append it.
LEMMA AbsentIsBlocked ==
  ASSUME NEW i, NEW set \in LogSets, NEW A \in SUBSET PolicyMembers[set],
         Cardinality(A) >= PolicyQuorum[set],
         \A n \in A : /\ i \notin Held(n)
                      /\ fenced(n, staged_transactions[i].generation)
  PROVE  /\ Cardinality(MayHold(i, set)) < PolicyQuorum[set]
         /\ ~ held_by_quorum(i, set)
  <1> DEFINE M == PolicyMembers[set]
             B == {n \in M : i \in Held(n)}
             C == MayHold(i, set)
  <1>1. IsFiniteSet(M) /\ PolicyQuorum[set] \in Nat /\ 2 * PolicyQuorum[set] > Cardinality(M)
    BY LogSetConstants
  <1>2. /\ B \in SUBSET M /\ A \cap B = {}
        /\ C \in SUBSET M /\ A \cap C = {}
    BY DEF MayHold, fenced
  <1> HIDE DEF C, B, M
  <1>3. Cardinality(B) < PolicyQuorum[set]
    BY <1>1, <1>2, NoDisjointQuorums DEF M
  <1>4. Cardinality(C) < PolicyQuorum[set]
    BY <1>1, <1>2, NoDisjointQuorums DEF M
  <1>5. B \in SUBSET M /\ Cardinality(B) \in Nat
    BY <1>1, <1>2, MoreMembers
  <1> QED
    BY <1>1, <1>3, <1>4, <1>5 DEF C, B, M, held_by_quorum

\* What a step of the transaction authority does to the staged records.
RecordsStep ==
    /\ RecordsKept /\ NoReceipts'
    /\ AddedCertified /\ AddedVisible /\ AddedAborted
    /\ \A j \in Staged' : staged_transactions'[j].generation \in Generations

\* The fields that an update of a record changes.
LEMMA RecordFields ==
  ASSUME NEW s \in StagedRecords, NEW set \in LogSets,
         NEW status \in {"pending", "visible", "aborted"}
  PROVE  /\ LET u == [s EXCEPT !.certificates = @ \cup {set}] IN
            /\ u.certificates = s.certificates \cup {set} /\ u.receipts = s.receipts
            /\ u.status = s.status /\ u.generation = s.generation
         /\ LET v == [s EXCEPT !.status = status] IN
            /\ v.certificates = s.certificates /\ v.receipts = s.receipts
            /\ v.status = status /\ v.generation = s.generation
         /\ s.certificates \subseteq LogSets
  BY DEF StagedRecords

\* The members' files stay as they are.
LEMMA LogsSame ==
  ASSUME UNCHANGED tlogVars, RecordsKept
  PROVE  LogsGrow
  <1>1. \A n \in TLogs : Held(n)' = Held(n)
    BY DEF tlogVars, Held
  <1>2. ASSUME NEW j \in Staged, NEW set \in LogSets PROVE MayHold(j, set)' = MayHold(j, set)
    <2>1. PolicyMembers[set] \in SUBSET TLogs
      BY LogSetConstants
    <2>2. staged_transactions'[j].generation = staged_transactions[j].generation
      BY DEF RecordsKept
    <2> QED
      BY <1>1, <2>1, <2>2 DEF MayHold, tlogVars
  <1> QED
    BY <1>1, <1>2 DEF LogsGrow

\* A step that leaves the staged records alone.
LEMMA RecordsSame ==
  ASSUME UNCHANGED staged_transactions, DomainTyped, MembersTyped, NoReceipts
  PROVE  RecordsStep
  <1>1. Staged' = Staged
    BY DEF Staged
  <1>2. \A j \in Staged : staged_transactions[j].certificates \subseteq LogSets
    BY StagedTyped
  <1>3. RecordsKept
    BY <1>1 DEF RecordsKept
  <1>4. AddedCertified /\ AddedVisible /\ AddedAborted
    BY <1>1, <1>2 DEF AddedCertified, AddedVisible, AddedAborted
  <1> QED
    BY <1>1, <1>3, <1>4 DEF RecordsStep, NoReceipts, MembersTyped

\* Stage adds a pending record without evidence.
LEMMA StageRecords ==
  ASSUME DecisionInv, authority \in AuthorityType, MembersTyped, NoReceipts,
         NEW t \in Txns, Stage(t, None)
  PROVE  RecordsStep
  <1> DEFINE S == staged_transactions
             T == staged_transactions'
             n == Len(staged_transactions)
  <1>1. /\ n \in Nat /\ Staged = 1 .. n
        /\ \A j \in Staged : S[j].certificates \subseteq LogSets
    BY StagedTyped DEF DecisionInv
  <1>2. /\ T \in Seq(StagedRecords) /\ Len(T) = n + 1
        /\ \A j \in Staged : T[j] = S[j]
        /\ T[n + 1].status = "pending" /\ T[n + 1].certificates = {}
    BY StageStep
  <1>3. T[n + 1].receipts = {} /\ T[n + 1].generation = domain_generation
    BY DEF Stage, DecisionInv, DomainTyped
  <1>4. Staged' = 1 .. (n + 1) /\ \A j \in Staged' : j \in Staged \/ j = n + 1
    BY <1>1, <1>2 DEF Staged
  <1>5. domain_generation \in Generations
    BY GenerationConstants DEF MembersTyped, Generations
  <1> HIDE DEF n
  <1>6. Staged \subseteq Staged'
    BY <1>1, <1>4
  <1>7. RecordsKept
    BY <1>2, <1>6 DEF RecordsKept
  <1>8. NoReceipts' /\ \A j \in Staged' : T[j].generation \in Generations
    BY <1>2, <1>3, <1>4, <1>5 DEF NoReceipts, MembersTyped
  <1>9. AddedCertified
    BY <1>1, <1>2, <1>4 DEF AddedCertified
  <1>10. AddedVisible /\ AddedAborted
    BY <1>2, <1>4 DEF AddedVisible, AddedAborted
  <1> QED
    BY <1>7, <1>8, <1>9, <1>10 DEF RecordsStep

\* An update of one record that is not aborted.
LEMMA OneRecord ==
  ASSUME DomainTyped, MembersTyped, NoReceipts, NEW i \in Staged, NEW s,
         staged_transactions' = [staged_transactions EXCEPT ![i] = s],
         staged_transactions[i].status # "aborted",
         s.generation = staged_transactions[i].generation,
         s.receipts = staged_transactions[i].receipts,
         \A set \in s.certificates :
            /\ set \in LogSets
            /\ set \in staged_transactions[i].certificates \/ held_by_quorum(i, set),
         s.status = "visible" => \/ staged_transactions[i].status = "visible"
                                 \/ \A set \in LogSets : held_by_quorum(i, set),
         s.status = "aborted" =>
            /\ s.certificates # LogSets
            /\ \E set \in LogSets : Cardinality(MayHold(i, set)) < PolicyQuorum[set]
  PROVE  RecordsStep
  <1> DEFINE S == staged_transactions
             T == staged_transactions'
             n == Len(staged_transactions)
  <1>1. /\ n \in Nat /\ Staged = 1 .. n /\ Staged' = Staged
        /\ \A j \in Staged : T[j] = IF j = i THEN s ELSE S[j]
        /\ \A j \in Staged : S[j].certificates \subseteq LogSets
        /\ i \in 1 .. i
    <2>1. n \in Nat /\ Staged = 1 .. n /\ \A j \in Staged : S[j].certificates \subseteq LogSets
      BY StagedTyped
    <2>2. Staged' = Staged /\ \A j \in Staged : T[j] = IF j = i THEN s ELSE S[j]
      BY DEF Staged, DomainTyped
    <2> QED
      BY <2>1, <2>2
  <1> HIDE DEF n
  <1>2. RecordsKept
    BY <1>1 DEF RecordsKept
  <1>3. NoReceipts' /\ \A j \in Staged' : T[j].generation \in Generations
    BY <1>1 DEF NoReceipts, MembersTyped
  <1>4. AddedCertified
    BY <1>1 DEF AddedCertified
  <1>5. AddedVisible
    BY <1>1 DEF AddedVisible
  <1>6. AddedAborted
    <2> SUFFICES ASSUME NEW k \in Staged, T[k].status = "aborted", S[k].status # "aborted"
                 PROVE  \E j \in 1 .. k :
                          /\ T[j].status = "aborted" /\ T[j].generation = T[k].generation
                          /\ T[j].certificates # LogSets
                          /\ \E set \in LogSets : Cardinality(MayHold(j, set)) < PolicyQuorum[set]
      BY <1>1 DEF AddedAborted
    <2>1. k = i /\ T[k] = s
      BY <1>1
    <2> QED
      BY <1>1, <2>1
  <1> QED
    BY <1>2, <1>3, <1>4, <1>5, <1>6 DEF RecordsStep

\* A certificate of the commit proxy.
LEMMA CertifyRecords ==
  ASSUME DomainTyped, MembersTyped, NoReceipts, PoliciesFixed,
         NEW i \in Staged, NEW set \in LogSets, Certify(i, set)
  PROVE  RecordsStep
  <1> DEFINE r == staged_transactions[i]
             s == [r EXCEPT !.certificates = @ \cup {set}]
  <1>1. r \in StagedRecords
    BY StagedTyped
  <1>2. PICK position \in 1 .. MaxLog :
           LET signers == {n \in PolicyMembers[set] : attests(n, i, position)} IN
           RecordLogCertificate(i, set, signers)
    BY DEF Certify
  <1>3. /\ staged_transactions' = [staged_transactions EXCEPT ![i] = s]
        /\ r.status # "aborted"
    BY <1>2 DEF RecordLogCertificate, staged_only
  <1>4. held_by_quorum(i, set)
    BY <1>2, CertifyHolds
  <1> HIDE DEF r
  <1>5. /\ s.certificates = r.certificates \cup {set} /\ s.receipts = r.receipts
        /\ s.status = r.status /\ s.generation = r.generation
        /\ r.certificates \subseteq LogSets
    BY <1>1, RecordFields
  <1> HIDE DEF s
  <1> QED
    BY <1>3, <1>4, <1>5, OneRecord DEF r

\* A publication, by the generation of the transaction or by its successor.
LEMMA PublishRecords ==
  ASSUME DomainTyped, MembersTyped, NoReceipts, CertifiedIsHeld,
         NEW i \in Unresolved, NEW g, publish_staged_transaction(i, g),
         LogSets \subseteq staged_transactions[i].certificates
  PROVE  RecordsStep
  <1> DEFINE r == staged_transactions[i]
             s == [r EXCEPT !.status = "visible"]
  <1>1. r \in StagedRecords /\ i \in Staged /\ r.status = "pending"
    BY StagedTyped DEF Unresolved
  <1>2. staged_transactions' = [staged_transactions EXCEPT ![i] = s]
    BY DEF publish_staged_transaction
  <1>3. \A set \in LogSets : held_by_quorum(i, set)
    BY <1>1 DEF CertifiedIsHeld
  <1> HIDE DEF r
  <1>4. /\ s.certificates = r.certificates /\ s.receipts = r.receipts
        /\ s.status = "visible" /\ s.generation = r.generation
        /\ r.certificates \subseteq LogSets
    BY <1>1 DEF StagedRecords
  <1> HIDE DEF s
  <1> QED
    BY <1>1, <1>2, <1>3, <1>4, OneRecord DEF r

\* A publication needs a certificate of every log set: none goes by receipts.
LEMMA PublishIsCertified ==
  ASSUME NoReceipts, NEW i \in Staged, Publish(i)
  PROVE  LogSets \subseteq staged_transactions[i].certificates
  BY DEF Publish, durable_everywhere, NoReceipts

\* The abort of the sole unresolved transaction.
LEMMA DecideHeadRecords ==
  ASSUME DecisionInv, authority \in AuthorityType, MembersTyped, NoReceipts, PoliciesFixed,
         NEW i \in Unresolved, DecideHead(i)
  PROVE  RecordsStep
  <1> DEFINE r == staged_transactions[i]
             s == [r EXCEPT !.status = "aborted"]
             seen == [n \in TLogs |-> i \in Held(n)]
  <1>1. r \in StagedRecords /\ i \in Staged /\ i \in Nat /\ r.status = "pending"
    BY StagedTyped DEF DecisionInv, Unresolved
  <1>2. PICK signers \in Quorums :
           /\ \A set \in LogSets : signers[set] \subseteq FenceSigners(i)
           /\ TakeoverAbort(i, SeenBy(signers, seen))
    BY DEF DecideHead
  <1>3. /\ staged_transactions' = [staged_transactions EXCEPT ![i] = s]
        /\ r.generation = domain_generation
        /\ authority.last_completed_recovery_id # None
    BY <1>2 DEF TakeoverAbort, successor_authorized
  <1>4. PICK set \in LogSets \ r.certificates :
           absent_quorum(SeenBy(signers, seen)[set], log_set_policies[set])
    BY <1>2 DEF TakeoverAbort, missing_set_has_absence_quorum
  <1> DEFINE A == {n \in signers[set] : i \notin Held(n)}
  <1>5. /\ signers[set] \in SUBSET PolicyMembers[set] /\ signers[set] \in SUBSET TLogs
        /\ log_set_policies[set].quorum = PolicyQuorum[set]
    BY SignersAreMembers
  <1>6. Cardinality(A) >= PolicyQuorum[set]
    <2>1. SeenBy(signers, seen)[set] = [n \in signers[set] |-> i \in Held(n)]
      BY <1>5 DEF SeenBy
    <2>2. {n \in DOMAIN SeenBy(signers, seen)[set] : ~ SeenBy(signers, seen)[set][n]} = A
      BY <2>1
    <2> QED
      BY <1>4, <1>5, <2>2 DEF absent_quorum
  <1>7. \A n \in A : i \notin Held(n) /\ fenced(n, r.generation)
    <2> TAKE n \in A
    <2>1. fence[n][domain_generation] =
             [recovery |-> authority.last_completed_recovery_id, head |-> i]
      BY <1>2 DEF FenceSigners
    <2>2. authority.last_completed_recovery_id \in RecoveryIds
      BY <1>3 DEF AuthorityType
    <2>3. fence[n][domain_generation] # None
      BY <1>1, <2>1, <2>2, StatementIsNotNone
    <2> QED
      BY <1>3, <2>3 DEF fenced
  <1>8. Cardinality(MayHold(i, set)) < PolicyQuorum[set]
    BY <1>5, <1>6, <1>7, AbsentIsBlocked
  <1> HIDE DEF r
  <1>9. /\ s.certificates = r.certificates /\ s.receipts = r.receipts
        /\ s.status = "aborted" /\ s.generation = r.generation
        /\ r.certificates \subseteq LogSets
    BY <1>1 DEF StagedRecords
  <1> HIDE DEF s
  <1>10. s.certificates # LogSets
    BY <1>4, <1>9
  <1> QED
    BY <1>1, <1>3, <1>8, <1>9, <1>10, OneRecord DEF r, DecisionInv

\* The recovery of a window: its prefix is held everywhere, and the first record
\* after the prefix blocks the rest.
LEMMA DecideWindowRecords ==
  ASSUME DecisionInv, authority \in AuthorityType, MembersTyped, NoReceipts, PoliciesFixed,
         CertifiedIsHeld, DecideWindow
  PROVE  RecordsStep
  <1> DEFINE S == staged_transactions
             T == staged_transactions'
             seen == [n \in TLogs |-> Held(n)]
  <1>1. PICK signers \in Quorums, kept \in SUBSET Unresolved :
           /\ \A set \in LogSets : signers[set] \subseteq PrefixFenceSigners
           /\ TakeoverRecoverPrefix(kept, SeenBy(signers, seen))
    BY DEF DecideWindow
  <1> DEFINE rest == Unresolved \ kept
             b == CHOOSE i \in rest : \A j \in rest : i <= j
  <1>2. /\ T = [i \in Staged |->
                  IF i \notin Unresolved THEN S[i]
                  ELSE [S[i] EXCEPT !.status = IF i \in kept THEN "visible" ELSE "aborted"]]
        /\ authority.last_completed_recovery_id # None
        /\ \A i \in Unresolved : S[i].generation = domain_generation
        /\ recovered_prefix(kept, SeenBy(signers, seen))
    BY <1>1 DEF TakeoverRecoverPrefix, successor_authorized, window_exact
  <1>3. /\ \A j \in Staged : S[j] \in StagedRecords
        /\ Staged \subseteq Nat /\ Unresolved \subseteq Staged
        /\ \A j \in Staged : S[j].certificates \subseteq LogSets
        /\ \A j \in Staged : j \in 1 .. j
        /\ \A j \in Unresolved : S[j].status = "pending"
    BY StagedTyped DEF DecisionInv, Unresolved
  <1>4. /\ Staged' = Staged
        /\ \A j \in Staged :
              /\ T[j].generation = S[j].generation /\ T[j].receipts = S[j].receipts
              /\ T[j].certificates = S[j].certificates
              /\ T[j].status = IF j \notin Unresolved THEN S[j].status
                               ELSE IF j \in kept THEN "visible" ELSE "aborted"
    <2>1. Staged' = Staged
      BY <1>2 DEF Staged
    <2>2. ASSUME NEW j \in Staged, j \in Unresolved
          PROVE  /\ T[j].generation = S[j].generation /\ T[j].receipts = S[j].receipts
                 /\ T[j].certificates = S[j].certificates
                 /\ T[j].status = IF j \in kept THEN "visible" ELSE "aborted"
      <3> DEFINE r == S[j]
                 status == IF j \in kept THEN "visible" ELSE "aborted"
      <3>1. T[j] = [r EXCEPT !.status = status] /\ r \in StagedRecords
        BY <1>2, <1>3, <2>2
      <3> HIDE DEF r, status
      <3>2. /\ T[j].generation = r.generation /\ T[j].receipts = r.receipts
            /\ T[j].certificates = r.certificates /\ T[j].status = status
        BY <3>1 DEF StagedRecords
      <3> QED
        BY <3>2 DEF r, status
    <2> QED
      BY <1>2, <2>1, <2>2
  <1>5. ASSUME NEW i \in kept, NEW set \in LogSets PROVE held_by_quorum(i, set)
    BY <1>2, PresentIsHeld DEF recovered_prefix
  <1>6. ASSUME rest # {}
        PROVE  /\ b \in rest /\ \A j \in rest : b <= j
               /\ S[b].certificates # LogSets
               /\ \E set \in LogSets : Cardinality(MayHold(b, set)) < PolicyQuorum[set]
    <2>1. rest \in SUBSET Nat
      BY <1>3
    <2>2. \E m \in rest : \A j \in rest : m <= j
      BY <1>6, <2>1, LeastNatural
    <2>3. b \in rest /\ \A j \in rest : b <= j
      BY <2>2, Zenon
    <2>4. PICK set \in LogSets : missing_quorum(b, SeenBy(signers, seen), set)
      BY <1>2, <1>6 DEF recovered_prefix
    <2> HIDE DEF b
    <2> DEFINE A == {n \in signers[set] : b \notin Held(n)}
    <2>5. /\ signers[set] \in SUBSET PolicyMembers[set] /\ signers[set] \in SUBSET TLogs
          /\ log_set_policies[set].quorum = PolicyQuorum[set]
      BY SignersAreMembers
    <2>6. Cardinality(A) >= PolicyQuorum[set]
      <3>1. SeenBy(signers, seen)[set] = [n \in signers[set] |-> Held(n)]
        BY <2>5 DEF SeenBy
      <3>2. {n \in DOMAIN SeenBy(signers, seen)[set] : b \notin SeenBy(signers, seen)[set][n]} = A
        BY <3>1
      <3> QED
        BY <2>4, <2>5, <3>2 DEF missing_quorum
    <2>7. \A n \in A : b \notin Held(n) /\ fenced(n, S[b].generation)
      <3> TAKE n \in A
      <3>1. prefix_fence[n][domain_generation] =
               [recovery |-> authority.last_completed_recovery_id, window |-> Unresolved]
        BY <1>1 DEF PrefixFenceSigners
      <3>2. authority.last_completed_recovery_id \in RecoveryIds /\ Unresolved \in SUBSET Nat
        BY <1>2, <1>3 DEF AuthorityType
      <3>3. prefix_fence[n][domain_generation] # None
        BY <3>1, <3>2, StatementIsNotNone
      <3> QED
        BY <1>2, <2>3, <3>3 DEF fenced
    <2>8. Cardinality(MayHold(b, set)) < PolicyQuorum[set] /\ ~ held_by_quorum(b, set)
      BY <2>5, <2>6, <2>7, AbsentIsBlocked
    <2>9. S[b].certificates # LogSets
      BY <1>3, <2>3, <2>8 DEF CertifiedIsHeld
    <2> QED
      BY <2>3, <2>8, <2>9
  <1> HIDE DEF b, S, T
  <1>7. RecordsKept
    BY <1>3, <1>4 DEF RecordsKept, S, T
  <1>8. NoReceipts' /\ \A j \in Staged' : T[j].generation \in Generations
    BY <1>4 DEF NoReceipts, MembersTyped, S, T
  <1>9. AddedCertified /\ AddedVisible
    BY <1>3, <1>4, <1>5 DEF AddedCertified, AddedVisible, S, T
  <1>10. AddedAborted
    <2> SUFFICES ASSUME NEW k \in Staged, T[k].status = "aborted", S[k].status # "aborted"
                 PROVE  \E j \in 1 .. k :
                          /\ T[j].status = "aborted" /\ T[j].generation = T[k].generation
                          /\ T[j].certificates # LogSets
                          /\ \E set \in LogSets : Cardinality(MayHold(j, set)) < PolicyQuorum[set]
      BY <1>4 DEF AddedAborted, S, T
    <2>1. k \in rest
      BY <1>3, <1>4
    <2>2. b \in rest /\ b <= k /\ b \in Staged
      BY <1>3, <1>6, <2>1
    <2>3. b \in 1 .. k
      BY <1>3, <2>2
    <2>4. T[b].status = "aborted" /\ T[b].certificates = S[b].certificates
      BY <1>4, <2>2
    <2>5. T[b].generation = domain_generation /\ T[k].generation = domain_generation
      BY <1>2, <1>4, <2>1, <2>2
    <2> QED
      BY <1>6, <2>1, <2>3, <2>4, <2>5
  <1> QED
    BY <1>7, <1>8, <1>9, <1>10 DEF RecordsStep, T

-----------------------------------------------------------------------------
(***************************************************************************)
(* The steps of the composed system.                                       *)
(***************************************************************************)
CommitInv == GenerationInv /\ DecisionInv /\ StagedInv /\ DurabilityInv

\* What a step of the generation authority does to its generation.
LEMMA GenerationBounded ==
  ASSUME authority \in AuthorityType, authority.generation \in Generations, RecoveryNext
  PROVE  authority'.generation \in Generations /\ authority.generation <= authority'.generation
  <1>1. authority.generation \in 1 .. MaxGeneration /\ MaxGeneration \in Nat
    BY GenerationConstants DEF Generations
  <1>2. CASE PrepareStep
    <2>1. /\ authority.generation < MaxGeneration
          /\ authority'.generation = authority.generation + 1
      BY <1>2 DEF PrepareStep, Prepare, next_generation, AuthorityType
    <2> QED
      BY <1>1, <2>1 DEF Generations
  <1>3. CASE ReserveStep
    <2>1. authority'.generation = authority.generation
      BY <1>3 DEF ReserveStep, Reserve, AuthorityType
    <2> QED
      BY <1>1, <2>1 DEF Generations
  <1>4. CASE ActivateStep
    <2>1. authority'.generation = authority.generation
      BY <1>4 DEF ActivateStep, Activate, clear_pending_system, AuthorityType
    <2> QED
      BY <1>1, <2>1 DEF Generations
  <1> QED
    BY <1>2, <1>3, <1>4 DEF RecoveryNext

\* A command that keeps to the records lemma keeps the durability invariant.
LEMMA CommandDurable ==
  ASSUME DomainTyped, DurabilityInv, UNCHANGED tlogVars, RecordsStep, PoliciesFixed',
         authority'.generation \in Generations, domain_generation' \in 1 .. authority'.generation
  PROVE  DurabilityInv'
  <1>1. RecordsKept /\ NoReceipts' /\ AddedCertified /\ AddedVisible /\ AddedAborted
    BY DEF RecordsStep
  <1>2. LogsGrow
    BY <1>1, LogsSame
  <1>3. CertifiedIsHeld' /\ VisibleIsDurable' /\ AbortedIsBlocked'
    BY <1>1, <1>2, DurabilityKept DEF DurabilityInv
  <1>4. MembersTyped'
    BY DEF MembersTyped, DurabilityInv, tlogVars, RecordsStep
  <1> QED
    BY <1>1, <1>3, <1>4 DEF DurabilityInv

\* A step of a member keeps the durability invariant.
LEMMA MemberDurable ==
  ASSUME DomainTyped, DurabilityInv, UNCHANGED << authority, cellVars >>, LogsGrow,
         MembersTyped'
  PROVE  DurabilityInv'
  <1>1. UNCHANGED staged_transactions /\ UNCHANGED log_set_policies
    BY DEF cellVars, domainVars, policyVars
  <1>2. RecordsStep
    BY <1>1, RecordsSame DEF DurabilityInv
  <1>3. RecordsKept /\ NoReceipts' /\ AddedCertified /\ AddedVisible /\ AddedAborted
    BY <1>2 DEF RecordsStep
  <1>4. CertifiedIsHeld' /\ VisibleIsDurable' /\ AbortedIsBlocked'
    BY <1>3, DurabilityKept DEF DurabilityInv
  <1>5. PoliciesFixed'
    BY <1>1 DEF DurabilityInv, PoliciesFixed
  <1> QED
    BY <1>3, <1>4, <1>5 DEF DurabilityInv

\* A domain that no command touches.
LEMMA DomainKept ==
  ASSUME DecisionInv, StagedInv, UNCHANGED domainVars
  PROVE  DecisionInv' /\ StagedInv'
  <1>1. DomainTyped' /\ ChainUnbroken'
    BY DEF domainVars, StagedInv, DomainTyped, ChainUnbroken
  <1>2. Staged' = Staged /\ Unresolved' = Unresolved /\ Visible' = Visible
    BY DEF domainVars, Staged, Unresolved, Visible
  <1>3. ResolvedInStagedOrder'
    BY <1>2 DEF domainVars, StagedInv, ResolvedInStagedOrder
  <1>4. PendingLinked' /\ HeadIsLastVisible'
    BY <1>2 DEF domainVars, StagedInv, PendingLinked, HeadIsLastVisible
  <1>5. DecisionInv'
    BY <1>1, StagedUntouched DEF domainVars
  <1> QED
    BY <1>1, <1>3, <1>4, <1>5 DEF StagedInv

\* The members' handlers.
LEMMA MemberStep ==
  ASSUME CommitInv, MemberSteps(TRUE)
  PROVE  CommitInv'
  <1>1. DomainTyped /\ DurabilityInv /\ MembersTyped
    BY DEF CommitInv, DecisionInv, DurabilityInv
  <1>2. ASSUME UNCHANGED << authority, cellVars >>, LogsGrow, MembersTyped' PROVE CommitInv'
    <2>1. UNCHANGED domainVars
      BY <1>2 DEF cellVars
    <2>2. GenerationInv'
      BY <1>2, AuthorityKept DEF CommitInv
    <2> QED
      BY <1>1, <1>2, <2>1, <2>2, MemberDurable, DomainKept DEF CommitInv
  <1>3. ASSUME NEW n \in TLogs, NEW i \in Staged, TLogAppend(n, i) PROVE CommitInv'
    <2>1. UNCHANGED << authority, cellVars, fence, prefix_fence >>
      BY <1>3 DEF TLogAppend
    <2>2. LogsGrow /\ log' \in [TLogs -> Seq(Nat)]
      BY <1>1, <1>3, AppendGrows
    <2>3. MembersTyped'
      BY <1>1, <2>1, <2>2 DEF MembersTyped, cellVars, domainVars, Staged
    <2> QED
      BY <1>2, <2>1, <2>2, <2>3
  <1>4. ASSUME NEW n \in TLogs, NEW i \in Unresolved, NEW recovery \in RecoveryIds \cup {None},
               TLogFence(n, recovery, i)
        PROVE  CommitInv'
    <2>1. UNCHANGED << authority, cellVars >> /\ i \in Staged
      BY <1>4 DEF TLogFence, Unresolved
    <2> QED
      BY <1>1, <1>2, <1>4, <2>1, FenceGrows
  <1>5. ASSUME NEW n \in TLogs, NEW recovery \in RecoveryIds \cup {None},
               TLogPrefixFence(n, recovery, Unresolved)
        PROVE  CommitInv'
    <2>1. UNCHANGED << authority, cellVars >> /\ Unresolved \in SUBSET Staged
      BY <1>5 DEF TLogPrefixFence, Unresolved
    <2> QED
      BY <1>1, <1>2, <1>5, <2>1, PrefixFenceGrows
  <1> QED
    BY <1>3, <1>4, <1>5 DEF MemberSteps

\* The commands of clients, commit proxies and the recovery of the authority.
LEMMA AuthorityStep ==
  ASSUME CommitInv, AuthoritySteps(TRUE), UNCHANGED tlogVars
  PROVE  CommitInv'
  <1>1. /\ GenerationInv /\ DecisionInv /\ StagedInv /\ DurabilityInv
        /\ DomainTyped /\ authority \in AuthorityType /\ PoliciesFixed /\ MembersTyped
        /\ NoReceipts /\ CertifiedIsHeld
    BY DEF CommitInv, DecisionInv, DurabilityInv, GenerationInv, GenerationTypeOK
  <1>2. ASSUME UNCHANGED authority, DecisionInv', StagedInv', RecordsStep, PoliciesFixed',
               UNCHANGED domain_generation
        PROVE  CommitInv'
    <2>1. GenerationInv'
      BY <1>1, <1>2, AuthorityKept
    <2>2. /\ authority'.generation \in Generations
          /\ domain_generation' \in 1 .. authority'.generation
      BY <1>1, <1>2 DEF MembersTyped
    <2> QED
      BY <1>1, <1>2, <2>1, <2>2, CommandDurable DEF CommitInv
  <1>3. ASSUME UNCHANGED domainVars PROVE DecisionInv' /\ StagedInv' /\ RecordsStep
    BY <1>1, <1>3, DomainKept, RecordsSame DEF domainVars
  <1>4. ASSUME UNCHANGED policyVars PROVE PoliciesFixed'
    BY <1>1, <1>4 DEF policyVars, PoliciesFixed
  <1>5. ASSUME NEW t \in Txns, GetReadVersion(t) PROVE CommitInv'
    <2>1. UNCHANGED << authority, domainVars, policyVars >>
      BY <1>5 DEF GetReadVersion
    <2> QED
      BY <1>2, <1>3, <1>4, <2>1 DEF domainVars
  <1>6. CASE InstallLogSetPolicies(LogSets)
    <2>1. UNCHANGED << authority, domainVars >>
      BY <1>6 DEF InstallLogSetPolicies
    <2>2. \A set \in LogSets : log_set_policies'[set] = ProposedPolicy(set)
      BY <1>6 DEF InstallLogSetPolicies
    <2>3. \A set \in LogSets : /\ ProposedPolicy(set).members = PolicyMembers[set]
                              /\ ProposedPolicy(set).quorum = PolicyQuorum[set]
      BY DEF ProposedPolicy
    <2>4. PoliciesFixed'
      BY <2>2, <2>3 DEF PoliciesFixed
    <2> QED
      BY <1>2, <1>3, <2>1, <2>4 DEF domainVars
  <1>7. ASSUME NEW t \in Txns, Stage(t, None) PROVE CommitInv'
    <2>1. UNCHANGED << authority, policyVars, domain_generation >>
      BY <1>7 DEF Stage
    <2>2. DecisionInv' /\ StagedInv'
      BY <1>1, <1>7, StageStep, StageInv
    <2>3. RecordsStep
      BY <1>1, <1>7, StageRecords
    <2> QED
      BY <1>2, <1>4, <2>1, <2>2, <2>3
  <1>8. ASSUME NEW i \in Unresolved, NEW set \in LogSets, Certify(i, set) PROVE CommitInv'
    <2>1. i \in Staged
      BY DEF Unresolved
    <2>2. PICK signers : RecordLogCertificate(i, set, signers)
      BY <1>8 DEF Certify
    <2>3. UNCHANGED << authority, policyVars, domain_generation >>
      BY <2>2 DEF RecordLogCertificate, staged_only
    <2>4. DecisionInv' /\ WindowResolved(1, 0)
      BY <1>1, <2>1, <2>2, EvidenceStep
    <2>5. StagedInv'
      BY <1>1, <2>4, WindowInv
    <2>6. RecordsStep
      BY <1>1, <1>8, <2>1, CertifyRecords
    <2> QED
      BY <1>2, <1>4, <2>3, <2>4, <2>5, <2>6
  <1>9. ASSUME NEW i \in Unresolved, Publish(i) PROVE CommitInv'
    <2>1. i \in Staged /\ i \in Nat \ {0} /\ 1 \in Nat
          /\ staged_transactions[i].generation = domain_generation
      BY <1>1, StagedTyped DEF Unresolved, DecisionInv, GenerationsAgree
    <2>2. publish_staged_transaction(i, domain_generation)
      BY <1>9, <2>1 DEF Publish
    <2>3. UNCHANGED << authority, policyVars, domain_generation >>
      BY <2>2 DEF publish_staged_transaction
    <2>4. DecisionInv' /\ WindowResolved(i, 1)
      BY <1>1, <1>9, <2>1, PublishFirst
    <2>5. StagedInv'
      BY <1>1, <2>1, <2>4, WindowInv
    <2>6. LogSets \subseteq staged_transactions[i].certificates
      BY <1>1, <1>9, <2>1, PublishIsCertified
    <2>7. RecordsStep
      BY <1>1, <2>2, <2>6, PublishRecords
    <2> QED
      BY <1>2, <1>4, <2>3, <2>4, <2>5, <2>7
  <1>10. CASE AuthorityNext
    <2>1. RecoveryNext /\ UNCHANGED << domainVars, policyVars >>
      BY <1>10 DEF AuthorityNext, cellVars
    <2>2. GenerationInv' /\ DecisionInv' /\ StagedInv' /\ RecordsStep /\ PoliciesFixed'
      BY <1>1, <1>3, <1>4, <1>10, <2>1, AuthorityKept
    <2>3. authority'.generation \in Generations /\ authority.generation <= authority'.generation
      BY <1>1, <2>1, GenerationBounded DEF MembersTyped
    <2>4. domain_generation' \in 1 .. authority'.generation
      BY <1>1, <2>1, <2>3 DEF MembersTyped, domainVars, Generations
    <2> QED
      BY <1>1, <2>2, <2>3, <2>4, CommandDurable DEF CommitInv
  <1> QED
    BY <1>5, <1>6, <1>7, <1>8, <1>9, <1>10 DEF AuthoritySteps

\* The commands of a recovered successor.
LEMMA TakeoverStep ==
  ASSUME CommitInv, TakeoverSteps, UNCHANGED tlogVars
  PROVE  CommitInv'
  <1>1. /\ GenerationInv /\ DecisionInv /\ StagedInv /\ DurabilityInv
        /\ DomainTyped /\ authority \in AuthorityType /\ PoliciesFixed /\ MembersTyped
        /\ NoReceipts /\ CertifiedIsHeld
    BY DEF CommitInv, DecisionInv, DurabilityInv, GenerationInv, GenerationTypeOK
  <1>2. ASSUME UNCHANGED << authority, policyVars >>, DecisionInv', RecordsStep,
               NEW u \in Nat \ {0}, NEW m \in Nat, WindowResolved(u, m),
               domain_generation' = domain_generation + 1, successor_authorized
        PROVE  CommitInv'
    <2>1. GenerationInv'
      BY <1>1, <1>2, AuthorityKept
    <2>2. /\ authority'.generation \in Generations
          /\ domain_generation' \in 1 .. authority'.generation
      BY <1>1, <1>2 DEF MembersTyped, successor_authorized, Generations
    <2>3. PoliciesFixed'
      BY <1>1, <1>2 DEF policyVars, PoliciesFixed
    <2>4. StagedInv'
      BY <1>1, <1>2, WindowInv
    <2> QED
      BY <1>1, <1>2, <2>1, <2>2, <2>3, <2>4, CommandDurable DEF CommitInv
  <1>3. ASSUME NEW i \in Unresolved, TakeoverPublish(i) PROVE CommitInv'
    <2>1. i \in Nat \ {0} /\ 1 \in Nat
      BY <1>1, StagedTyped DEF Unresolved
    <2>2. /\ publish_staged_transaction(i, domain_generation + 1) /\ successor_authorized
          /\ LogSets \subseteq staged_transactions[i].certificates
      BY <1>3 DEF TakeoverPublish
    <2>3. /\ UNCHANGED << authority, policyVars >>
          /\ domain_generation' = domain_generation + 1
      BY <2>2 DEF publish_staged_transaction
    <2>4. DecisionInv' /\ WindowResolved(i, 1)
      BY <1>1, <1>3, TakeoverPublishFirst
    <2>5. RecordsStep
      BY <1>1, <2>2, PublishRecords
    <2> QED
      BY <1>2, <2>1, <2>2, <2>3, <2>4, <2>5
  <1>4. ASSUME NEW i \in Unresolved, DecideHead(i) PROVE CommitInv'
    <2>1. PICK fences : TakeoverAbort(i, fences)
      BY <1>4 DEF DecideHead
    <2>2. i \in Staged /\ 1 \in Nat \ {0} /\ 0 \in Nat
      BY DEF Unresolved
    <2>3. /\ UNCHANGED << authority, policyVars >> /\ successor_authorized
          /\ domain_generation' = domain_generation + 1
      BY <2>1 DEF TakeoverAbort
    <2>4. DecisionInv' /\ WindowResolved(1, 0)
      BY <1>1, <2>1, <2>2, AbortStep
    <2>5. RecordsStep
      BY <1>1, <1>4, DecideHeadRecords
    <2> QED
      BY <1>2, <2>2, <2>3, <2>4, <2>5
  <1>5. CASE DecideWindow
    <2>1. PICK kept, inventories : TakeoverRecoverPrefix(kept, inventories)
      BY <1>5 DEF DecideWindow
    <2>2. /\ UNCHANGED << authority, policyVars >> /\ successor_authorized
          /\ domain_generation' = domain_generation + 1
      BY <2>1 DEF TakeoverRecoverPrefix
    <2>3. /\ DecisionInv' /\ Cardinality(kept) \in Nat
          /\ \E u \in Nat \ {0} : WindowResolved(u, Cardinality(kept))
      BY <1>1, <2>1, RecoverStep
    <2>4. RecordsStep
      BY <1>1, <1>5, DecideWindowRecords
    <2> QED
      BY <1>2, <2>2, <2>3, <2>4
  <1> QED
    BY <1>3, <1>4, <1>5 DEF TakeoverSteps

\* The path starts with empty logs and without policies.
LEMMA CommitInitInv ==
  ASSUME CommitInit
  PROVE  CommitInv
  <1>1. GenerationInv /\ DecisionInv /\ StagedInv
    BY CellInitInv DEF CommitInit
  <1>2. PICK system \in TxSystems, members \in MemberSets :
               authority = Bootstrapped(system, members, << >>)
    BY DEF CommitInit, CellInit
  <1>3. authority.generation = 1
    BY <1>2, DefaultIsTyped DEF AuthorityType, Bootstrapped
  <1>4. Staged = {} /\ domain_generation = 1
    BY DEF CommitInit, CellInit, Staged
  <1>5. PoliciesFixed
    BY DEF CommitInit, CellInit, PoliciesFixed
  <1>6. MembersTyped
    <2>1. 1 \in Generations /\ 1 \in 1 .. 1
      BY GenerationConstants DEF Generations
    <2>2. log \in [TLogs -> Seq(Nat)]
      BY DEF CommitInit
    <2>3. /\ fence \in [TLogs -> [Generations -> [recovery : RecoveryIds, head : Nat] \cup {None}]]
          /\ prefix_fence \in [TLogs -> [Generations ->
                [recovery : RecoveryIds, window : SUBSET Nat] \cup {None}]]
      BY DEF CommitInit
    <2> QED
      BY <1>3, <1>4, <2>1, <2>2, <2>3 DEF MembersTyped
  <1>7. NoReceipts /\ CertifiedIsHeld /\ VisibleIsDurable /\ AbortedIsBlocked
    BY <1>4 DEF NoReceipts, CertifiedIsHeld, VisibleIsDurable, AbortedIsBlocked
  <1> QED
    BY <1>1, <1>5, <1>6, <1>7 DEF CommitInv, DurabilityInv

\* Every step of the composed system keeps the invariant.
LEMMA CommitStep ==
  ASSUME CommitInv, [CommitNext]_commitVars
  PROVE  CommitInv'
  <1>1. CASE CommitNext
    BY <1>1, AuthorityStep, TakeoverStep, MemberStep DEF CommitNext
  <1>2. CASE UNCHANGED commitVars
    <2>1. UNCHANGED << authority, cellVars, tlogVars >>
      BY <1>2 DEF commitVars
    <2>2. UNCHANGED << domainVars, policyVars, domain_generation, staged_transactions >>
      BY <2>1 DEF cellVars, domainVars
    <2>3. GenerationInv' /\ DecisionInv' /\ StagedInv'
      BY <2>1, <2>2, AuthorityKept, DomainKept DEF CommitInv
    <2>4. DomainTyped /\ MembersTyped /\ NoReceipts /\ PoliciesFixed
      BY DEF CommitInv, DecisionInv, DurabilityInv
    <2>5. RecordsStep
      BY <2>2, <2>4, RecordsSame
    <2>6. PoliciesFixed'
      BY <2>2, <2>4 DEF policyVars, PoliciesFixed
    <2>7. /\ authority'.generation \in Generations
          /\ domain_generation' \in 1 .. authority'.generation
      BY <2>1, <2>2, <2>4 DEF MembersTyped
    <2> QED
      BY <2>1, <2>3, <2>4, <2>5, <2>6, <2>7, CommandDurable DEF CommitInv
  <1> QED
    BY <1>1, <1>2

\* The inductive invariant of the composed system: the domain's own, and that
\* certificates, visibility and aborts agree with what the members hold.
THEOREM CommitInvariance == CommitSpec => []CommitInv
  <1>1. CommitInit => CommitInv
    BY CommitInitInv
  <1>2. CommitInv /\ [CommitNext]_commitVars => CommitInv'
    BY CommitStep
  <1> QED
    BY <1>1, <1>2, PTL DEF CommitSpec

\* What a client can read is held by a quorum of every log set, whether its own
\* generation published it or a takeover did.
THEOREM VisibleStaysDurable == CommitSpec => []VisibleIsDurable
  <1>1. CommitInv => VisibleIsDurable
    BY DEF CommitInv, DurabilityInv
  <1> QED
    BY <1>1, CommitInvariance, PTL

\* An aborted transaction, or an earlier aborted one that it chains from, can never
\* reach a quorum, in whatever order appends and fences arrive at the members.
THEOREM AbortsArePermanent == CommitSpec => []AbortedNeverDurable
  <1>1. CommitInv => AbortedNeverDurable
    BY DEF CommitInv, DurabilityInv, AbortedIsBlocked, BlockedBy, AbortedNeverDurable
  <1> QED
    BY <1>1, CommitInvariance, PTL

\* A transaction that every log set certified is aborted only behind one that some
\* log set did not certify.
THEOREM CertifiedAreNotDropped == CommitSpec => []CertifiedPrefixSurvives
  <1>1. CommitInv => CertifiedPrefixSurvives
    BY DEF CommitInv, DurabilityInv, AbortedIsBlocked, BlockedBy, CertifiedPrefixSurvives
  <1> QED
    BY <1>1, CommitInvariance, PTL

\* The committed history is one unbroken chain of the visible transactions also
\* when certificates and fences come from the members' logs.
THEOREM CommittedChain == CommitSpec => [](ChainUnbroken /\ ResolvedInStagedOrder)
  <1>1. CommitInv => ChainUnbroken /\ ResolvedInStagedOrder
    BY DEF CommitInv, StagedInv
  <1> QED
    BY <1>1, CommitInvariance, PTL
=============================================================================
