----------------------- MODULE CellTransactionProofs ------------------------
(***************************************************************************)
(* Theorems about the transaction authority of a domain, for every set of  *)
(* transactions, keys, log sets and policies and without the bounds of the *)
(* TLC instances.                                                          *)
(***************************************************************************)
EXTENDS StagedChainProofs, GenerationAuthorityProofs, IntervalFacts

\* What StagedInv says of the unresolved transactions: they are a final part of
\* the staged ones.
LEMMA UnresolvedInterval ==
  ASSUME DomainTyped, StagedOrdered, Unresolved # {}
  PROVE  \E u \in 1 .. Len(staged_transactions) :
            /\ Unresolved = u .. Len(staged_transactions)
            /\ FirstUnresolved = u
  <1> DEFINE n == Len(staged_transactions)
  <1>1. Unresolved \subseteq 1 .. n /\ n \in Nat /\ Staged = 1 .. n
    BY DEF DomainTyped, Unresolved, Staged
  <1>2. PICK u \in Unresolved : \A j \in Unresolved : u <= j
    BY <1>1, LeastNatural
  <1>3. \A i \in u .. n : i \in Unresolved
    BY <1>1, <1>2 DEF StagedOrdered
  <1>4. \A i \in Unresolved : i \in u .. n
    BY <1>1, <1>2
  <1>5. Unresolved = u .. n
    BY <1>3, <1>4, Zenon
  <1>6. FirstUnresolved = u
    <2>1. /\ FirstUnresolved \in Unresolved
          /\ \A j \in Unresolved : FirstUnresolved <= j
      BY <1>2, Zenon DEF FirstUnresolved
    <2> QED
      BY <1>1, <1>2, <2>1
  <1> QED
    BY <1>1, <1>5, <1>6

\* A set of staged indexes with one member.
LEMMA SoleMember ==
  ASSUME DomainTyped, sole_unresolved, NEW i \in Unresolved
  PROVE  Unresolved = {i}
  <1>1. Unresolved \subseteq 1 .. Len(staged_transactions) /\ Len(staged_transactions) \in Nat
    BY StagedTyped DEF Unresolved
  <1>2. IsFiniteSet(1 .. Len(staged_transactions))
    BY <1>1, FS_Interval
  <1>3. IsFiniteSet(Unresolved)
    BY <1>1, <1>2, FS_Subset
  <1>4. PICK x : Unresolved = {x}
    BY <1>3, FS_Singleton DEF sole_unresolved
  <1> QED
    BY <1>4

\* An aborting takeover aborts the one unresolved transaction.
LEMMA AbortStep ==
  ASSUME DecisionInv, NEW i \in Staged, NEW fences, TakeoverAbort(i, fences)
  PROVE  /\ DecisionInv' /\ DecisionsKept
         /\ WindowResolved(1, 0)
         /\ Unresolved = {i} /\ Unresolved' = {}
         /\ staged_transactions' = [staged_transactions EXCEPT ![i].status = "aborted"]
  <1> DEFINE S == staged_transactions
             T == staged_transactions'
             s == [S[i] EXCEPT !.status = "aborted"]
  <1>1. /\ S[i] \in StagedRecords /\ S[i].status = "pending" /\ domain_generation \in Nat
        /\ S[i].generation = domain_generation
        /\ committed_envelopes \in Seq(EnvelopeRecords)
    <2>1. S[i] \in StagedRecords /\ S[i].status \in {"pending", "visible", "aborted"}
      BY StagedTyped DEF DecisionInv
    <2>2. S[i].generation = domain_generation /\ S[i].status # "visible"
      BY DEF TakeoverAbort, may_abort
    <2>3. domain_generation \in Nat /\ committed_envelopes \in Seq(EnvelopeRecords)
      BY DEF DecisionInv, DomainTyped
    <2>4. S[i].status = "aborted" => S[i].generation < domain_generation
      BY DEF DecisionInv, GenerationsAgree
    <2> QED
      BY <2>1, <2>2, <2>3, <2>4
  <1>2. Unresolved = {i}
    BY <1>1, SoleMember DEF Unresolved, TakeoverAbort, DecisionInv
  <1>3. /\ s \in StagedRecords /\ EnvelopeOf(s) = EnvelopeOf(S[i])
        /\ s.status = "aborted" /\ s.generation = S[i].generation
    BY <1>1, StatusUpdate
  <1>4. /\ T = [S EXCEPT ![i] = s]
        /\ domain_generation' = domain_generation + 1
        /\ UNCHANGED << latest_sequence, committed_envelopes, previous_log_chain >>
    BY DEF TakeoverAbort
  <1> HIDE DEF s
  <1>5. /\ T \in Seq(StagedRecords) /\ Len(T) = Len(S) /\ Staged' = Staged
        /\ \A j \in Staged : /\ T[j] = IF j = i THEN s ELSE S[j]
                             /\ EnvelopeOf(T[j]) = EnvelopeOf(S[j])
    BY <1>3, <1>4, OneUpdated DEF DecisionInv
  <1>6. Visible' = Visible /\ Unresolved' = {}
    BY <1>1, <1>2, <1>3, <1>5 DEF Visible, Unresolved
  <1>7. DomainTyped'
    BY <1>1, <1>4, <1>5 DEF DecisionInv, DomainTyped
  <1>8. GenerationsAgree'
    <2> SUFFICES ASSUME NEW j \in Staged
                 PROVE  /\ T[j].status # "pending"
                        /\ T[j].status = "aborted" => T[j].generation < domain_generation + 1
      BY <1>4, <1>5 DEF GenerationsAgree
    <2>1. CASE j = i
      BY <2>1, <1>1, <1>3, <1>5
    <2>2. CASE j # i
      <3>1. /\ T[j] = S[j] /\ S[j].generation \in Nat /\ S[j].status # "pending"
            /\ S[j].status = "aborted" => S[j].generation < domain_generation
        BY <2>2, <1>2, <1>5, StagedTyped DEF DecisionInv, GenerationsAgree, Unresolved
      <3> QED
        BY <3>1, <1>1
    <2> QED
      BY <2>1, <2>2
  <1>9. DecisionsKept
    BY <1>1, <1>4, <1>5 DEF DecisionsKept
  <1>10. WindowResolved(1, 0)
    BY <1>1, <1>4, <1>5, <1>6, EmptyWindow
  <1>11. DecisionInv'
    BY <1>7, <1>8, <1>10, WindowOrdered DEF DecisionInv
  <1> QED
    BY <1>2, <1>6, <1>9, <1>10, <1>11 DEF TakeoverAbort

\* Prefix recovery makes a window at the front of the unresolved transactions visible
\* and aborts the others.
LEMMA RecoverStep ==
  ASSUME DecisionInv, NEW kept, NEW inventories, TakeoverRecoverPrefix(kept, inventories)
  PROVE  /\ DecisionInv' /\ DecisionsKept
         /\ \E u \in Nat \ {0} : WindowResolved(u, Cardinality(kept))
         /\ Cardinality(kept) \in Nat
         /\ Unresolved' = {}
         /\ Visible' = Visible \cup kept
         /\ Staged' = Staged
         /\ \A j \in Staged : staged_transactions'[j].certificates =
                                 staged_transactions[j].certificates
  <1> DEFINE S == staged_transactions
             T == staged_transactions'
             C == committed_envelopes
             n == Len(staged_transactions)
             m == Cardinality(kept)
             window == [k \in 1 .. m |-> S[FirstUnresolved + k - 1]]
             tail == [k \in DOMAIN window |-> EnvelopeOf(window[k])]
  <1>1. /\ n \in Nat /\ Staged = 1 .. n /\ domain_generation \in Nat
        /\ C \in Seq(EnvelopeRecords) /\ Len(C) \in Nat
        /\ latest_sequence \in Nat /\ previous_log_chain \in ChainHeads
        /\ \A i \in 1 .. n : /\ S[i] \in StagedRecords /\ S[i].generation \in Nat
                             /\ S[i].sequence \in Nat
    BY StagedTyped DEF DecisionInv, DomainTyped
  <1>2. /\ Unresolved # {} /\ kept \subseteq Unresolved
        /\ \A i \in Unresolved : S[i].generation = domain_generation
        /\ \A i \in kept, j \in Unresolved \ kept : i < j
    BY DEF TakeoverRecoverPrefix, window_exact, recovered_prefix
  <1>3. /\ committed_envelopes' = C \o tail
        /\ T = [i \in Staged |->
                  IF i \notin Unresolved THEN S[i]
                  ELSE [S[i] EXCEPT !.status = IF i \in kept THEN "visible" ELSE "aborted"]]
        /\ latest_sequence' = IF kept = {} THEN latest_sequence ELSE window[m].sequence
        /\ previous_log_chain' = IF kept = {} THEN previous_log_chain
                                 ELSE digest(EnvelopeOf(window[m]))
        /\ domain_generation' = domain_generation + 1
    BY DEF TakeoverRecoverPrefix
  <1>4. PICK u \in 1 .. n : Unresolved = u .. n /\ FirstUnresolved = u
    BY <1>2, UnresolvedInterval DEF DecisionInv
  <1>5. m \in Nat /\ kept = u .. (u + m - 1)
    <2>1. /\ u \in Nat /\ n \in Nat /\ kept \in SUBSET (u .. n)
          /\ \A i \in kept, j \in (u .. n) \ kept : i < j
      BY <1>1, <1>2, <1>4
    <2> QED
      BY <2>1, InitialPart
  <1>6. \A k \in 1 .. m : u + k - 1 \in kept /\ u + k - 1 \in 1 .. n
    <2>1. \A k \in 1 .. m : u + k - 1 \in u .. (u + m - 1)
      BY <1>1, <1>4, <1>5
    <2> QED
      BY <2>1, <1>2, <1>4, <1>5
  <1>7. /\ DOMAIN tail = 1 .. m
        /\ \A k \in 1 .. m : window[k] = S[u + k - 1] /\ tail[k] = EnvelopeOf(S[u + k - 1])
    BY <1>4
  <1> HIDE DEF window, tail, m
  <1>8. \A k \in 1 .. m : tail[k] \in EnvelopeRecords
    BY <1>1, <1>6, <1>7, EnvelopeTyped
  <1>9. tail \in Seq(EnvelopeRecords) /\ Len(tail) = m
    <2>1. tail = [k \in 1 .. m |-> tail[k]]
      BY <1>7 DEF tail
    <2>2. m \in Nat /\ tail \in [1 .. m -> EnvelopeRecords]
      BY <1>5, <1>8, <2>1
    <2> QED
      BY <2>2, IntervalSequence
  <1>10. /\ committed_envelopes' \in Seq(EnvelopeRecords)
         /\ Len(committed_envelopes') = Len(C) + m
         /\ \A k \in 1 .. Len(C) : committed_envelopes'[k] = C[k]
         /\ \A k \in 1 .. m : committed_envelopes'[Len(C) + k] = EnvelopeOf(S[u + k - 1])
    <2>1. /\ C \o tail \in Seq(EnvelopeRecords)
          /\ Len(C \o tail) = Len(C) + Len(tail)
          /\ \A k \in 1 .. Len(C) + Len(tail) :
                (C \o tail)[k] = IF k <= Len(C) THEN C[k] ELSE tail[k - Len(C)]
      BY <1>1, <1>9, Concatenated
    <2>2. \A k \in 1 .. Len(C) : (C \o tail)[k] = C[k]
      BY <2>1, <1>1, <1>5, <1>9
    <2>3. \A k \in 1 .. m : (C \o tail)[Len(C) + k] = EnvelopeOf(S[u + k - 1])
      <3> TAKE k \in 1 .. m
      <3>1. /\ Len(C) + k \in 1 .. Len(C) + Len(tail)
            /\ ~ (Len(C) + k <= Len(C)) /\ Len(C) + k - Len(C) = k
        BY <1>1, <1>5, <1>9
      <3> QED
        BY <3>1, <2>1, <1>7
    <2> QED
      BY <2>1, <2>2, <2>3, <1>3, <1>9
  <1>11. \A j \in 1 .. n :
            /\ T[j] \in StagedRecords
            /\ EnvelopeOf(T[j]) = EnvelopeOf(S[j])
            /\ T[j].certificates = S[j].certificates
            /\ T[j].generation = S[j].generation
            /\ T[j].status = IF j \notin Unresolved THEN S[j].status
                             ELSE IF j \in kept THEN "visible" ELSE "aborted"
    <2> TAKE j \in 1 .. n
    <2>1. CASE j \notin Unresolved
      BY <2>1, <1>1, <1>3
    <2>2. CASE j \in Unresolved
      <3> DEFINE status == IF j \in kept THEN "visible" ELSE "aborted"
      <3>1. T[j] = [S[j] EXCEPT !.status = status]
        BY <2>2, <1>1, <1>3
      <3>2. status \in {"pending", "visible", "aborted"}
        OBVIOUS
      <3> HIDE DEF status
      <3>3. /\ T[j] \in StagedRecords /\ EnvelopeOf(T[j]) = EnvelopeOf(S[j])
            /\ T[j].certificates = S[j].certificates
            /\ T[j].generation = S[j].generation /\ T[j].status = status
        <4>1. S[j] \in StagedRecords
          BY <1>1
        <4> DEFINE s == S[j]
        <4> HIDE DEF s
        <4>2. /\ [s EXCEPT !.status = status] \in StagedRecords
              /\ EnvelopeOf([s EXCEPT !.status = status]) = EnvelopeOf(s)
              /\ [s EXCEPT !.status = status].status = status
              /\ [s EXCEPT !.status = status].generation = s.generation
              /\ [s EXCEPT !.status = status].certificates = s.certificates
          BY <4>1, <3>2, StatusUpdate DEF s
        <4>3. T[j] = [s EXCEPT !.status = status]
          BY <3>1 DEF s
        <4> QED
          BY <4>2, <4>3 DEF s
      <3> QED
        BY <2>2, <3>3 DEF status
    <2> QED
      BY <2>1, <2>2
  <1>12. T \in Seq(StagedRecords) /\ Len(T) = n /\ Staged' = Staged
    <2>1. DOMAIN T = 1 .. n /\ T = [j \in 1 .. n |-> T[j]]
      BY <1>1, <1>3
    <2>2. T \in [1 .. n -> StagedRecords]
      BY <1>11, <2>1
    <2> QED
      BY <1>1, <2>1, <2>2 DEF Staged
  <1>13. Unresolved' = {} /\ Visible' = Visible \cup kept
    <2>1. \A j \in 1 .. n : /\ T[j].status # "pending"
                            /\ T[j].status = "visible" <=> j \in Visible \cup kept
      BY <1>1, <1>2, <1>11 DEF Unresolved, Visible
    <2>2. Visible \cup kept \subseteq 1 .. n
      BY <1>1, <1>2 DEF Unresolved, Visible
    <2> QED
      BY <1>1, <1>12, <2>1, <2>2 DEF Unresolved, Visible
  <1>14. /\ m = 0 => latest_sequence' = latest_sequence /\ previous_log_chain' = previous_log_chain
         /\ m # 0 => /\ latest_sequence' = S[u + m - 1].sequence
                     /\ previous_log_chain' = digest(EnvelopeOf(S[u + m - 1]))
                     /\ u + m - 1 \in 1 .. n
    <2>1. m = 0 => kept = {}
      BY <1>4, <1>5
    <2>2. m # 0 => m \in 1 .. m /\ kept # {}
      BY <1>4, <1>5
    <2> QED
      BY <2>1, <2>2, <1>3, <1>6, <1>7
  <1>15. DomainTyped'
    <2>1. latest_sequence' \in Nat /\ previous_log_chain' \in ChainHeads
      <3>1. CASE m = 0
        BY <3>1, <1>1, <1>14
      <3>2. CASE m # 0
        <4>1. u + m - 1 \in 1 .. n
          BY <3>2, <1>14
        <4>2. S[u + m - 1] \in StagedRecords /\ S[u + m - 1].sequence \in Nat
          BY <4>1, <1>1
        <4>3. digest(EnvelopeOf(S[u + m - 1])) \in ChainHeads
          BY <4>2, EnvelopeTyped
        <4> QED
          BY <3>2, <4>2, <4>3, <1>14
      <3> QED
        BY <3>1, <3>2
    <2> QED
      BY <2>1, <1>1, <1>3, <1>10, <1>12 DEF DomainTyped
  <1>16. GenerationsAgree'
    <2> SUFFICES ASSUME NEW j \in 1 .. n
                 PROVE  /\ T[j].status # "pending"
                        /\ T[j].status = "aborted" => T[j].generation < domain_generation + 1
      BY <1>1, <1>3, <1>12 DEF GenerationsAgree
    <2>1. CASE j \in Unresolved
      BY <2>1, <1>1, <1>2, <1>11
    <2>2. CASE j \notin Unresolved
      <3>1. /\ S[j].status # "pending"
            /\ S[j].status = "aborted" => S[j].generation < domain_generation
        BY <2>2, <1>1 DEF DecisionInv, GenerationsAgree, Unresolved
      <3> QED
        BY <2>2, <3>1, <1>1, <1>11
    <2> QED
      BY <2>1, <2>2
  <1>17. DecisionsKept
    <2>1. \A j \in 1 .. n : S[j].status # "pending" => T[j].status = S[j].status
      BY <1>11 DEF Unresolved
    <2>2. \A j \in 1 .. n : EnvelopeOf(T[j]) = EnvelopeOf(S[j])
      BY <1>11
    <2>3. domain_generation' >= domain_generation /\ Staged = 1 .. n
      BY <1>1, <1>3
    <2> QED
      BY <2>1, <2>2, <2>3 DEF DecisionsKept
  <1>18. WindowResolved(u, m)
    <2>1. \A i \in Unresolved : m > 0 => u <= i
      BY <1>4
    <2>2. kept \subseteq Unresolved
      BY <1>2
    <2>3. domain_generation' \in Nat
      BY <1>1, <1>3
    <2> QED
      BY <2>1, <2>2, <2>3, <1>1, <1>5, <1>10, <1>11, <1>12, <1>13, <1>14 DEF WindowResolved
  <1>19. u \in Nat \ {0}
    BY <1>4
  <1>20. DecisionInv'
    BY <1>5, <1>15, <1>16, <1>18, <1>19, WindowOrdered DEF DecisionInv
  <1> QED
    BY <1>1, <1>5, <1>11, <1>12, <1>13, <1>17, <1>18, <1>19, <1>20 DEF m

\* Stage decides nothing: it adds an unresolved transaction of the domain's
\* generation after all others.
LEMMA StageStep ==
  ASSUME DecisionInv, authority \in AuthorityType,
         NEW t \in Txns, NEW resolution, Stage(t, resolution)
  PROVE  /\ DecisionInv' /\ DecisionsKept
         /\ staged_transactions' \in Seq(StagedRecords)
         /\ Len(staged_transactions') = Len(staged_transactions) + 1
         /\ \A i \in Staged : staged_transactions'[i] = staged_transactions[i]
         /\ staged_transactions'[Len(staged_transactions) + 1].status = "pending"
         /\ staged_transactions'[Len(staged_transactions) + 1].certificates = {}
  <1> DEFINE S == staged_transactions
             T == staged_transactions'
             n == Len(staged_transactions)
             r == [ id           |-> t,
                    generation   |-> domain_generation,
                    credential   |-> Credential,
                    sequence     |-> next_commit_sequence,
                    prev         |-> staged_log_chain,
                    receipts     |-> {},
                    certificates |-> {},
                    status       |-> "pending" ]
  <1>1. /\ S \in Seq(StagedRecords) /\ n \in Nat /\ Staged = 1 .. n
        /\ T = Append(S, r)
        /\ domain_generation \in Nat /\ latest_sequence \in Nat
        /\ previous_log_chain \in ChainHeads
    BY DEF DecisionInv, DomainTyped, Stage, Staged
  <1>2. UNCHANGED << domain_generation, latest_sequence, committed_envelopes,
                     previous_log_chain >>
    BY DEF Stage
  <1>3. \A i \in 1 .. n : S[i] \in StagedRecords /\ S[i].sequence \in Nat
    BY <1>1, StagedTyped DEF DecisionInv
  <1>4. /\ next_commit_sequence \in Nat \ {0}
        /\ \A i \in 1 .. n : S[i].sequence < next_commit_sequence
    <2>1. CASE S = << >>
      <3>1. n = 0
        BY <2>1
      <3> QED
        BY <1>1, <2>1, <3>1 DEF next_commit_sequence
    <2>2. CASE S # << >>
      <3>1. n \in 1 .. n /\ next_commit_sequence = S[n].sequence + 1
        BY <1>1, <2>2 DEF next_commit_sequence
      <3>2. \A i \in 1 .. n : i < n => S[i].sequence < S[n].sequence
        BY <1>1, <3>1 DEF DecisionInv, StagedOrdered
      <3>3. \A i \in 1 .. n : i < n \/ i = n
        BY <1>1
      <3> QED
        BY <1>3, <3>1, <3>2, <3>3
    <2> QED
      BY <2>1, <2>2
  <1>5. staged_log_chain \in ChainHeads
    <2> DEFINE live == {i \in Staged : staged_transactions[i].status # "aborted"}
    <2>1. live \in SUBSET (1 .. n)
      BY <1>1
    <2>2. CASE live = {}
      BY <1>1, <2>2 DEF staged_log_chain
    <2>3. CASE live # {}
      <3>1. PICK l \in live : \A j \in live : j <= l
        BY <1>1, <2>1, <2>3, GreatestNatural
      <3>2. LastOf(live) = l /\ l \in 1 .. n
        BY <1>1, <2>1, <3>1, LastOfIs
      <3>3. digest(EnvelopeOf(S[l])) \in ChainHeads
        BY <1>3, <3>2, EnvelopeTyped
      <3> QED
        BY <2>3, <3>2, <3>3 DEF staged_log_chain
    <2> QED
      BY <2>2, <2>3
  <1>6. r \in StagedRecords
    <2>1. Credential \in Nat \X (TxSystems \cup {None})
      BY DEF Credential, AuthorityType
    <2> QED
      BY <1>1, <1>4, <1>5, <2>1 DEF StagedRecords
  <1>7. /\ r.sequence = next_commit_sequence /\ r.status = "pending"
        /\ r.generation = domain_generation /\ r.certificates = {}
    OBVIOUS
  <1> HIDE DEF r
  <1>8. /\ T \in Seq(StagedRecords) /\ Len(T) = n + 1 /\ Staged' = 1 .. (n + 1)
        /\ \A i \in 1 .. n : T[i] = S[i]
        /\ T[n + 1] = r
    BY <1>1, <1>6 DEF Staged
  <1>9. \A i \in 1 .. (n + 1) : i = n + 1 \/ i \in 1 .. n
    BY <1>1
  <1> HIDE DEF S, T, n
  <1>10. StagedOrdered'
    <2>1. \A i, j \in 1 .. (n + 1) : i < j => T[i].sequence < T[j].sequence
      <3> TAKE i, j \in 1 .. (n + 1)
      <3> HAVE i < j
      <3>1. i \in 1 .. n /\ T[i].sequence = S[i].sequence
        BY <1>1, <1>8, <1>9
      <3>2. CASE j = n + 1
        BY <3>1, <3>2, <1>4, <1>7, <1>8
      <3>3. CASE j \in 1 .. n
        <4>1. S[i].sequence < S[j].sequence
          BY <3>1, <3>3, <1>1 DEF DecisionInv, StagedOrdered, S
        <4> QED
          BY <3>1, <3>3, <4>1, <1>8
      <3> QED
        BY <3>2, <3>3, <1>9
    <2>2. ASSUME NEW i \in 1 .. (n + 1), NEW j \in 1 .. (n + 1), T[j].status = "pending", j < i
          PROVE  T[i].status = "pending"
      <3>1. j \in 1 .. n /\ S[j].status = "pending"
        BY <2>2, <1>1, <1>8, <1>9
      <3>2. CASE i = n + 1
        BY <3>2, <1>7, <1>8
      <3>3. CASE i \in 1 .. n
        <4>1. S[i].status = "pending"
          BY <2>2, <3>1, <3>3, <1>1 DEF DecisionInv, StagedOrdered, Unresolved, S
        <4> QED
          BY <3>3, <4>1, <1>8
      <3> QED
        BY <3>2, <3>3, <1>9
    <2> QED
      BY <1>8, <2>1, <2>2 DEF StagedOrdered, Unresolved, T
  <1>11. GenerationsAgree'
    <2> SUFFICES ASSUME NEW i \in 1 .. (n + 1)
                 PROVE  /\ T[i].status = "pending" => T[i].generation = domain_generation
                        /\ T[i].status = "aborted" => T[i].generation < domain_generation
      BY <1>2, <1>8 DEF GenerationsAgree, T
    <2>1. CASE i = n + 1
      BY <2>1, <1>7, <1>8
    <2>2. CASE i \in 1 .. n
      <3>1. /\ S[i].status = "pending" => S[i].generation = domain_generation
            /\ S[i].status = "aborted" => S[i].generation < domain_generation
        BY <2>2, <1>1 DEF DecisionInv, GenerationsAgree, S
      <3> QED
        BY <2>2, <3>1, <1>8
    <2> QED
      BY <2>1, <2>2, <1>9
  <1>12. DecisionsKept
    BY <1>1, <1>2, <1>8 DEF DecisionsKept, S, T
  <1>13. DomainTyped'
    BY <1>2, <1>8 DEF DecisionInv, DomainTyped, T
  <1> QED
    BY <1>1, <1>7, <1>8, <1>10, <1>11, <1>12, <1>13 DEF DecisionInv, S, T, n

\* Publish exposes the first unresolved transaction under the domain's generation.
LEMMA PublishFirst ==
  ASSUME DecisionInv, NEW i \in Staged, Publish(i)
  PROVE  /\ DecisionInv' /\ DecisionsKept
         /\ i \in Unresolved /\ WindowResolved(i, 1)
  <1>1. /\ i \in Unresolved /\ domain_generation \in Nat
        /\ publish_staged_transaction(i, domain_generation)
    BY DEF Publish, Unresolved, DecisionInv, GenerationsAgree, DomainTyped
  <1>2. \A j \in Unresolved : i <= j
    <2> SUFFICES ASSUME NEW j \in Unresolved, ~ (i <= j) PROVE FALSE
      OBVIOUS
    <2>1. i \in Nat /\ j \in Nat /\ j \in Staged
      BY StagedTyped DEF DecisionInv, Unresolved
    <2>2. staged_transactions[j].sequence < staged_transactions[i].sequence
      BY <2>1 DEF DecisionInv, StagedOrdered
    <2> QED
      BY <2>2 DEF Publish, earlier_pending
  <1> QED
    BY <1>1, <1>2, PublishStep

\* A publishing takeover exposes the one unresolved transaction.
LEMMA TakeoverPublishFirst ==
  ASSUME DecisionInv, NEW i \in Unresolved, TakeoverPublish(i)
  PROVE  /\ DecisionInv' /\ DecisionsKept
         /\ Unresolved = {i} /\ WindowResolved(i, 1)
  <1>1. domain_generation \in Nat /\ domain_generation + 1 > domain_generation
    BY DEF DecisionInv, DomainTyped
  <1>2. Unresolved = {i}
    BY SoleMember DEF DecisionInv, TakeoverPublish
  <1>3. publish_staged_transaction(i, domain_generation + 1)
    BY DEF TakeoverPublish
  <1>4. \A j \in Unresolved : i <= j
    BY <1>2, StagedTyped DEF DecisionInv, Unresolved
  <1> QED
    BY <1>1, <1>2, <1>3, <1>4, PublishStep

\* The direct path and the policy transitions keep the domain typed.
LEMMA DirectTyped ==
  ASSUME DomainTyped, NEW t \in Txns, NEW log_index \in 1 .. MaxSequence,
         NEW resolution, Commit(t, log_index, resolution)
  PROVE  DomainTyped'
  <1> DEFINE e == Envelope(t, domain_generation, log_index, previous_log_chain)
  <1>1. e \in EnvelopeRecords /\ digest(e) \in ChainHeads
    BY CellConstants DEF DomainTyped, EnvelopeRecords, Envelope, ChainHeads, digest
  <1>2. /\ committed_envelopes' = Append(committed_envelopes, e)
        /\ latest_sequence' = log_index /\ previous_log_chain' = digest(e)
        /\ UNCHANGED << domain_generation, staged_transactions >>
    BY DEF Commit, advanced_chain
  <1> HIDE DEF e
  <1> QED
    BY <1>1, <1>2 DEF DomainTyped

\* A step that changes neither the staged transactions nor the generation of the
\* domain decides nothing.
LEMMA StagedUntouched ==
  ASSUME DecisionInv, UNCHANGED << domain_generation, staged_transactions >>, DomainTyped'
  PROVE  DecisionInv' /\ DecisionsKept
  <1>1. domain_generation \in Nat
    BY DEF DecisionInv, DomainTyped
  <1>2. DecisionsKept
    BY <1>1 DEF DecisionsKept
  <1>3. StagedOrdered' /\ GenerationsAgree'
    BY DEF DecisionInv, StagedOrdered, GenerationsAgree, Staged, Unresolved
  <1> QED
    BY <1>2, <1>3 DEF DecisionInv

\* A domain starts under a bootstrapped authority.
LEMMA CellInitInv ==
  ASSUME CellInit
  PROVE  GenerationInv /\ DecisionInv /\ StagedInv
  <1>1. PICK system \in TxSystems, members \in MemberSets :
               authority = Bootstrapped(system, members, << >>)
    BY DEF CellInit
  <1>2. << >> \in IncarnationType /\ members \in SUBSET Voters
    BY MapsAreTyped DEF IncarnationType
  <1>3. "Active" \in Phases /\ 1 \in Nat /\ system \in TxSystems \cup {None}
    BY DEF Phases
  <1>4. authority \in AuthorityType
    BY <1>1, <1>2, <1>3, DefaultIsTyped, Zenon DEF AuthorityType, Bootstrapped
  <1>5. /\ authority.phase = "Active"
        /\ authority.generation = 1
        /\ authority.last_completed_generation = 1
        /\ authority.pending_reconfiguration = None
        /\ authority.recovery_id = None
        /\ authority.pending_transaction_system_id = None
    BY <1>1, DefaultIsTyped DEF AuthorityType, Bootstrapped, DefaultAuthority
  <1>6. GenerationInv
    BY <1>4, <1>5 DEF GenerationInv, GenerationTypeOK, ReplacementBindsCurrentVoters
  <1>7. DomainTyped
    BY DEF CellInit, DomainTyped, ChainHeads, Genesis
  <1>8. Staged = {} /\ Unresolved = {} /\ Visible = {} /\ DOMAIN committed_envelopes = {}
    BY DEF CellInit, Staged, Unresolved, Visible
  <1>9. StagedOrdered /\ GenerationsAgree
    BY <1>8 DEF StagedOrdered, GenerationsAgree
  <1>10. ResolvedInStagedOrder /\ PendingLinked
    BY <1>8 DEF ResolvedInStagedOrder, PendingLinked
  <1>11. HeadIsLastVisible
    BY <1>8 DEF HeadIsLastVisible, CellInit
  <1>12. ChainUnbroken
    BY DEF ChainUnbroken, CellInit
  <1> QED
    BY <1>6, <1>7, <1>9, <1>10, <1>11, <1>12 DEF DecisionInv, StagedInv

\* A command of the cell leaves the generation authority alone, and a step of the
\* authority is one of GenerationAuthority.
LEMMA AuthorityKept ==
  ASSUME GenerationInv, UNCHANGED authority \/ AuthorityNext
  PROVE  GenerationInv'
  BY NextInv DEF AuthorityNext, GenerationNext

\* Every step of the staged path keeps the decisions, and resolves a window, stages a
\* transaction or leaves the domain as it was.
LEMMA StagedPathStep ==
  ASSUME GenerationInv, DecisionInv, StagedPathNext
  PROVE  /\ GenerationInv' /\ DecisionInv' /\ DecisionsKept
         /\ \/ \E u \in Nat \ {0}, m \in Nat : WindowResolved(u, m)
            \/ \E t \in Txns, resolution \in Resolutions : Stage(t, resolution)
            \/ UNCHANGED domainVars
  <1>0. DomainTyped /\ authority \in AuthorityType /\ 1 \in Nat \ {0} /\ 0 \in Nat /\ 1 \in Nat
    BY DEF DecisionInv, GenerationInv, GenerationTypeOK
  <1>1. ASSUME UNCHANGED domainVars PROVE DecisionInv' /\ DecisionsKept
    BY <1>0, <1>1, StagedUntouched DEF domainVars, DomainTyped
  <1>2. CASE ReadNext
    BY <1>1, <1>2, AuthorityKept DEF ReadNext, GetReadVersion
  <1>3. CASE PolicyNext
    BY <1>1, <1>3, AuthorityKept DEF PolicyNext, InstallLogSetPolicies
  <1>4. CASE StageNext
    <2>1. PICK t \in Txns, resolution \in Resolutions : Stage(t, resolution)
      BY <1>4 DEF StageNext
    <2>2. UNCHANGED authority
      BY <2>1 DEF Stage
    <2> QED
      BY <2>1, <2>2, <1>0, StageStep, AuthorityKept
  <1>5. CASE EvidenceNext
    <2>1. PICK i \in Staged, set \in LogSets, signers \in SignerSets :
               RecordLogReceipt(i, set, signers) \/ RecordLogCertificate(i, set, signers)
      BY <1>5 DEF EvidenceNext
    <2>2. UNCHANGED authority
      BY <2>1 DEF RecordLogReceipt, RecordLogCertificate, staged_only
    <2> QED
      BY <2>1, <2>2, <1>0, EvidenceStep, AuthorityKept
  <1>6. CASE PublishNext
    <2>1. PICK i \in Staged : Publish(i)
      BY <1>6 DEF PublishNext
    <2>2. UNCHANGED authority
      BY <2>1 DEF Publish, publish_staged_transaction
    <2>3. i \in Nat \ {0}
      BY StagedTyped DEF DecisionInv
    <2> QED
      BY <2>1, <2>2, <2>3, <1>0, PublishFirst, AuthorityKept
  <1>7. CASE TakeoverNext
    <2>1. CASE \E i \in Unresolved : TakeoverPublish(i)
      <3>1. PICK i \in Unresolved : TakeoverPublish(i)
        BY <2>1
      <3>2. UNCHANGED authority
        BY <3>1 DEF TakeoverPublish, publish_staged_transaction
      <3>3. i \in Nat \ {0}
        BY StagedTyped DEF DecisionInv, Unresolved
      <3> QED
        BY <3>1, <3>2, <3>3, <1>0, TakeoverPublishFirst, AuthorityKept
    <2>2. ASSUME NEW i \in Staged, NEW fences, TakeoverAbort(i, fences)
          PROVE  /\ GenerationInv' /\ DecisionInv' /\ DecisionsKept /\ WindowResolved(1, 0)
      <3>1. UNCHANGED authority
        BY <2>2 DEF TakeoverAbort
      <3> QED
        BY <2>2, <3>1, AbortStep, AuthorityKept
    <2>3. ASSUME NEW kept, NEW inventories, TakeoverRecoverPrefix(kept, inventories)
          PROVE  /\ GenerationInv' /\ DecisionInv' /\ DecisionsKept
                 /\ \E u \in Nat \ {0}, m \in Nat : WindowResolved(u, m)
      <3>1. UNCHANGED authority
        BY <2>3 DEF TakeoverRecoverPrefix
      <3> QED
        BY <2>3, <3>1, RecoverStep, AuthorityKept
    <2> QED
      BY <1>0, <1>7, <2>1, <2>2, <2>3 DEF TakeoverNext
  <1>8. CASE AuthorityNext
    BY <1>1, <1>8, AuthorityKept DEF AuthorityNext, cellVars
  <1> QED
    BY <1>2, <1>3, <1>4, <1>5, <1>6, <1>7, <1>8 DEF StagedPathNext

\* The other commands decide nothing either.
LEMMA CellStep ==
  ASSUME GenerationInv, DecisionInv, [CellNext]_<< authority, cellVars >>
  PROVE  GenerationInv' /\ DecisionInv' /\ DecisionsKept
  <1>0. DomainTyped
    BY DEF DecisionInv
  <1>1. ASSUME UNCHANGED << authority, domainVars >>
        PROVE  GenerationInv' /\ DecisionInv' /\ DecisionsKept
    BY <1>0, <1>1, StagedUntouched, AuthorityKept DEF domainVars, DomainTyped
  <1>2. CASE StagedPathNext
    BY <1>2, StagedPathStep
  <1>3. CASE DirectNext
    <2>1. PICK t \in Txns, log_index \in 1 .. MaxSequence, resolution \in Resolutions :
               Commit(t, log_index, resolution)
      BY <1>3 DEF DirectNext
    <2>2. UNCHANGED << authority, domain_generation, staged_transactions >>
      BY <2>1 DEF Commit
    <2> QED
      BY <1>0, <2>1, <2>2, DirectTyped, StagedUntouched, AuthorityKept
  <1>4. CASE RefusalNext
    BY <1>1, <1>4 DEF RefusalNext, CommitConflict, StageRefused
  <1>5. CASE TransitionNext
    <2>1. /\ UNCHANGED << authority, domain_generation, staged_transactions,
                          committed_envelopes, previous_log_chain >>
          /\ latest_sequence' = latest_sequence + 1
      BY <1>5 DEF TransitionNext, PrepareLogSetPolicyTransition,
                  CommitLogSetPolicyTransition
    <2>2. DomainTyped'
      BY <1>0, <2>1 DEF DomainTyped
    <2> QED
      BY <2>1, <2>2, StagedUntouched, AuthorityKept
  <1>6. CASE CapacityNext
    BY <1>1, <1>6 DEF CapacityNext, ReserveCapacity
  <1>7. CASE UNCHANGED << authority, cellVars >>
    BY <1>1, <1>7 DEF cellVars
  <1> QED
    BY <1>2, <1>3, <1>4, <1>5, <1>6, <1>7 DEF CellNext

\* Whatever mix of paths, policies and takeovers a domain goes through, an outcome
\* that was reported never changes, no staged envelope is rebuilt, and the domain
\* never returns to an earlier generation.
THEOREM OutcomesAreFinal == CellSpec => DecisionsAreFinal
  <1>1. CellInit => GenerationInv /\ DecisionInv
    BY CellInitInv
  <1>2. GenerationInv /\ DecisionInv /\ [CellNext]_<< authority, cellVars >> =>
           GenerationInv' /\ DecisionInv'
    BY CellStep
  <1>3. GenerationInv /\ DecisionInv /\ [CellNext]_<< authority, cellVars >> =>
           [DecisionsKept]_cellVars
    BY CellStep
  <1> QED
    BY <1>1, <1>2, <1>3, PTL DEF CellSpec, DecisionsAreFinal, DecisionsKept

\* The invariant of the staged path.
LEMMA StagedPathInv ==
  ASSUME GenerationInv, DecisionInv, StagedInv, [StagedPathNext]_<< authority, cellVars >>
  PROVE  GenerationInv' /\ DecisionInv' /\ StagedInv'
  <1>1. ASSUME UNCHANGED domainVars PROVE StagedInv'
    <2>1. DomainTyped' /\ ChainUnbroken'
      BY <1>1 DEF domainVars, StagedInv, DomainTyped, ChainUnbroken
    <2>2. Staged' = Staged /\ Unresolved' = Unresolved /\ Visible' = Visible
      BY <1>1 DEF domainVars, Staged, Unresolved, Visible
    <2>3. ResolvedInStagedOrder'
      BY <1>1, <2>2 DEF domainVars, StagedInv, ResolvedInStagedOrder
    <2>4. PendingLinked' /\ HeadIsLastVisible'
      BY <1>1, <2>2 DEF domainVars, StagedInv, PendingLinked, HeadIsLastVisible
    <2> QED
      BY <2>1, <2>3, <2>4 DEF StagedInv
  <1>2. GenerationInv' /\ DecisionInv'
    BY CellStep DEF CellNext
  <1>3. CASE StagedPathNext
    BY <1>1, <1>2, <1>3, StagedPathStep, WindowInv, StageInv
    DEF GenerationInv, GenerationTypeOK
  <1>4. CASE UNCHANGED << authority, cellVars >>
    BY <1>1, <1>2, <1>4 DEF cellVars
  <1> QED
    BY <1>2, <1>3, <1>4

\* The inductive invariant of a domain whose clients stage, its authority included.
THEOREM StagedInvariance == StagedPathSpec => [](GenerationInv /\ DecisionInv /\ StagedInv)
  <1>1. CellInit => GenerationInv /\ DecisionInv /\ StagedInv
    BY CellInitInv
  <1>2. /\ GenerationInv /\ DecisionInv /\ StagedInv
        /\ [StagedPathNext]_<< authority, cellVars >>
        => GenerationInv' /\ DecisionInv' /\ StagedInv'
    BY StagedPathInv
  <1> QED
    BY <1>1, <1>2, PTL DEF StagedPathSpec

\* The committed history of a domain whose clients stage is one unbroken hash chain
\* whose head and frontier are what the domain reports, across every publication,
\* takeover, abort and prefix recovery.
THEOREM ChainIsUnbroken == StagedPathSpec => []ChainUnbroken
  <1>1. StagedInv => ChainUnbroken
    BY DEF StagedInv
  <1> QED
    BY <1>1, StagedInvariance, PTL

\* Staged transactions are resolved in order, and the committed history is exactly
\* the visible ones with their original envelopes.
THEOREM StagedOrderKept == StagedPathSpec => []ResolvedInStagedOrder
  <1>1. StagedInv => ResolvedInStagedOrder
    BY DEF StagedInv
  <1> QED
    BY <1>1, StagedInvariance, PTL
=============================================================================
