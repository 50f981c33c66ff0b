------------------------- MODULE StagedChainProofs --------------------------
(***************************************************************************)
(* What the commands of the staged path do to the chain of envelopes, for  *)
(* every set of transactions, keys, log sets and policies: the inductive   *)
(* invariant of a domain and the lemmas that each kind of step keeps it.   *)
(***************************************************************************)
EXTENDS CellTransaction, TLAPS

-----------------------------------------------------------------------------
(***************************************************************************)
(* The inductive invariant of the staged path.  ChainUnbroken alone is not *)
(* inductive: an envelope is chained when it is staged and committed much  *)
(* later, so the invariant says what an unresolved envelope is chained to. *)
(***************************************************************************)
ChainHeads == (Txns \cup {None}) \X Nat

EnvelopeRecords ==
    [ id : Txns, generation : Nat, sequence : Nat \ {0}, prev : ChainHeads ]

StagedRecords ==
    [ id : Txns, generation : Nat, credential : Nat \X (TxSystems \cup {None}),
      sequence : Nat \ {0}, prev : ChainHeads, receipts : SUBSET LogSets,
      certificates : SUBSET LogSets, status : {"pending", "visible", "aborted"} ]

DomainTyped ==
    /\ domain_generation \in Nat
    /\ latest_sequence \in Nat
    /\ previous_log_chain \in ChainHeads
    /\ committed_envelopes \in Seq(EnvelopeRecords)
    /\ staged_transactions \in Seq(StagedRecords)

\* An unresolved transaction has a version beyond the frontier and is chained to
\* the unresolved one before it, the first one to the chain head.
PendingLinked ==
    \A i \in Unresolved :
       /\ staged_transactions[i].sequence > latest_sequence
       /\ staged_transactions[i].prev =
             IF i - 1 \in Unresolved THEN digest(EnvelopeOf(staged_transactions[i - 1]))
             ELSE previous_log_chain

\* The chain head and the frontier are those of the last visible transaction.
HeadIsLastVisible ==
    \/ Visible = {} /\ previous_log_chain = Genesis /\ latest_sequence = 0
    \/ \E v \in Visible :
          /\ \A j \in Visible : j <= v
          /\ previous_log_chain = digest(EnvelopeOf(staged_transactions[v]))
          /\ latest_sequence = staged_transactions[v].sequence

\* Staged versions increase, and what is unresolved is a final part of what was
\* staged.
StagedOrdered ==
    /\ \A i, j \in Staged :
          i < j => staged_transactions[i].sequence < staged_transactions[j].sequence
    /\ \A i \in Staged, j \in Unresolved : j < i => i \in Unresolved

StagedInv ==
    /\ DomainTyped
    /\ ResolvedInStagedOrder
    /\ PendingLinked
    /\ HeadIsLastVisible
    /\ ChainUnbroken

\* The envelope of a staged transaction is typed and its digest names it.
LEMMA EnvelopeTyped ==
  ASSUME NEW s \in StagedRecords
  PROVE  /\ EnvelopeOf(s) \in EnvelopeRecords
         /\ EnvelopeOf(s).id = s.id
         /\ EnvelopeOf(s).sequence = s.sequence
         /\ EnvelopeOf(s).prev = s.prev
         /\ digest(EnvelopeOf(s)) = << s.id, s.sequence >>
         /\ digest(EnvelopeOf(s)) \in ChainHeads
  BY DEF StagedRecords, EnvelopeRecords, EnvelopeOf, Envelope, digest, ChainHeads

\* What the type of the domain says of each staged transaction.
LEMMA StagedTyped ==
  ASSUME DomainTyped
  PROVE  /\ Len(staged_transactions) \in Nat
         /\ Staged = 1 .. Len(staged_transactions)
         /\ \A i \in Staged :
               /\ staged_transactions[i] \in StagedRecords
               /\ staged_transactions[i].id \in Txns
               /\ staged_transactions[i].generation \in Nat
               /\ staged_transactions[i].sequence \in Nat
               /\ staged_transactions[i].sequence > 0
               /\ staged_transactions[i].certificates \subseteq LogSets
               /\ staged_transactions[i].status \in {"pending", "visible", "aborted"}
  <1>1. staged_transactions \in Seq(StagedRecords)
    BY DEF DomainTyped
  <1>2. /\ Len(staged_transactions) \in Nat
        /\ Staged = 1 .. Len(staged_transactions)
        /\ \A i \in Staged : staged_transactions[i] \in StagedRecords
    BY <1>1 DEF Staged
  <1>3. ASSUME NEW s \in StagedRecords
        PROVE  /\ s.id \in Txns /\ s.generation \in Nat
               /\ s.sequence \in Nat /\ s.sequence > 0
               /\ s.certificates \subseteq LogSets
               /\ s.status \in {"pending", "visible", "aborted"}
    BY DEF StagedRecords
  <1> QED
    BY <1>2, <1>3

\* A takeover or a publication resolves a window u .. u + m - 1 at the front of the
\* unresolved transactions by making it visible; what is left stays unresolved or
\* is aborted.  With m = 0 the step only aborts, or only adds evidence.
WindowResolved(u, m) ==
    /\ staged_transactions' \in Seq(StagedRecords)
    /\ Len(staged_transactions') = Len(staged_transactions)
    /\ \A i \in Staged : EnvelopeOf(staged_transactions'[i]) = EnvelopeOf(staged_transactions[i])
    /\ u .. (u + m - 1) \subseteq Unresolved
    /\ \A i \in Unresolved : m > 0 => u <= i
    /\ Visible' = Visible \cup (u .. (u + m - 1))
    /\ \/ Unresolved' = {}
       \/ Unresolved' = Unresolved \ (u .. (u + m - 1))
    /\ committed_envelopes' \in Seq(EnvelopeRecords)
    /\ Len(committed_envelopes') = Len(committed_envelopes) + m
    /\ \A k \in 1 .. Len(committed_envelopes) :
          committed_envelopes'[k] = committed_envelopes[k]
    /\ \A k \in 1 .. m : committed_envelopes'[Len(committed_envelopes) + k] =
                            EnvelopeOf(staged_transactions[u + k - 1])
    /\ IF m = 0
       THEN UNCHANGED << latest_sequence, previous_log_chain >>
       ELSE /\ latest_sequence' = staged_transactions[u + m - 1].sequence
            /\ previous_log_chain' = digest(EnvelopeOf(staged_transactions[u + m - 1]))
    /\ domain_generation' \in Nat

\* Resolving a window at the front of the unresolved transactions preserves the
\* invariant.
LEMMA WindowInv ==
  ASSUME StagedInv, NEW u \in Nat \ {0}, NEW m \in Nat, WindowResolved(u, m)
  PROVE  StagedInv'
  <1> DEFINE S == staged_transactions
             T == staged_transactions'
             C == committed_envelopes
             D == committed_envelopes'
             n == Len(staged_transactions)
             c == Len(committed_envelopes)
             w == u + m - 1
             W == u .. (u + m - 1)
  <1>1. /\ n \in Nat /\ Staged = 1 .. n /\ Staged' = 1 .. n
        /\ c \in Nat /\ DOMAIN C = 1 .. c /\ DOMAIN D = 1 .. (c + m)
        /\ Len(D) = c + m
        /\ w \in Int /\ (m > 0 => u \in W /\ w \in W)
        /\ \A i \in 1 .. n : S[i] \in StagedRecords /\ T[i] \in StagedRecords
        /\ \A k \in 1 .. c : C[k] \in EnvelopeRecords
    BY DEF StagedInv, DomainTyped, WindowResolved, Staged
  <1>2. \A i \in 1 .. n : /\ T[i].sequence = S[i].sequence /\ T[i].prev = S[i].prev
                          /\ EnvelopeOf(T[i]) = EnvelopeOf(S[i])
                          /\ S[i].sequence \in Nat \ {0}
                          /\ EnvelopeOf(S[i]).sequence = S[i].sequence
                          /\ EnvelopeOf(S[i]).prev = S[i].prev
                          /\ digest(EnvelopeOf(S[i])) \in ChainHeads
                          /\ digest(EnvelopeOf(S[i]))[2] = S[i].sequence
    <2> TAKE i \in 1 .. n
    <2>1. EnvelopeOf(T[i]) = EnvelopeOf(S[i])
      BY <1>1 DEF WindowResolved
    <2>2. /\ EnvelopeOf(T[i]).sequence = T[i].sequence /\ EnvelopeOf(T[i]).prev = T[i].prev
      BY <1>1, EnvelopeTyped
    <2>3. /\ EnvelopeOf(S[i]).sequence = S[i].sequence /\ EnvelopeOf(S[i]).prev = S[i].prev
          /\ digest(EnvelopeOf(S[i])) = << S[i].id, S[i].sequence >>
          /\ digest(EnvelopeOf(S[i])) \in ChainHeads
      BY <1>1, EnvelopeTyped
    <2>4. S[i].sequence \in Nat \ {0}
      BY <1>1 DEF StagedRecords
    <2> QED
      BY <2>1, <2>2, <2>3, <2>4
  <1>3. /\ W \subseteq Unresolved /\ Unresolved \subseteq 1 .. n /\ Visible \subseteq 1 .. n
        /\ Unresolved \cap Visible = {}
        /\ \A i \in Unresolved : m > 0 => u <= i
        /\ Unresolved' = {} \/ Unresolved' = Unresolved \ W
        /\ Visible' = Visible \cup W
    BY <1>1 DEF WindowResolved, Unresolved, Visible
  <1>4. /\ \A i, j \in 1 .. n : i < j => S[i].sequence < S[j].sequence
        /\ \A i \in 1 .. n, j \in Unresolved : j < i => i \in Unresolved
        /\ \A k, l \in 1 .. c : k < l => C[k].sequence < C[l].sequence
    BY <1>1 DEF StagedInv, ResolvedInStagedOrder
  <1>5. /\ \A k \in 1 .. c : D[k] = C[k] /\ C[k].sequence \in Nat
        /\ \A k \in 1 .. m : D[c + k] = EnvelopeOf(S[u + k - 1]) /\ u + k - 1 \in W
    <2>1. \A k \in 1 .. c : C[k].sequence \in Nat
      BY <1>1 DEF EnvelopeRecords
    <2>2. \A k \in 1 .. m : u + k - 1 \in W
      BY <1>1
    <2> QED
      BY <2>1, <2>2 DEF WindowResolved
  <1>6. /\ latest_sequence \in Nat /\ latest_sequence' \in Nat
        /\ previous_log_chain' \in ChainHeads
        /\ m = 0 => latest_sequence' = latest_sequence /\ previous_log_chain' = previous_log_chain
        /\ m > 0 => /\ latest_sequence' = S[w].sequence
                    /\ previous_log_chain' = digest(EnvelopeOf(S[w]))
    BY <1>1, <1>2, <1>3 DEF WindowResolved, StagedInv, DomainTyped
  <1>7. DomainTyped'
    BY <1>6 DEF WindowResolved, DomainTyped
  <1>8. \A i \in Unresolved :
           /\ S[i].sequence > latest_sequence
           /\ S[i].prev = IF i - 1 \in Unresolved THEN digest(EnvelopeOf(S[i - 1]))
                          ELSE previous_log_chain
    BY DEF StagedInv, PendingLinked
  <1>9. /\ \A k \in 1 .. c :
              LET before == IF k = 1 THEN Genesis ELSE digest(C[k - 1]) IN
              C[k].prev = before /\ C[k].sequence > before[2]
        /\ previous_log_chain = IF c = 0 THEN Genesis ELSE digest(C[c])
        /\ latest_sequence = IF c = 0 THEN 0 ELSE C[c].sequence
    BY DEF StagedInv, ChainUnbroken
  <1>10. /\ {C[k] : k \in DOMAIN C} = {EnvelopeOf(S[i]) : i \in Visible}
         /\ \/ Visible = {} /\ previous_log_chain = Genesis /\ latest_sequence = 0
            \/ \E v \in Visible : /\ \A j \in Visible : j <= v
                                  /\ previous_log_chain = digest(EnvelopeOf(S[v]))
                                  /\ latest_sequence = S[v].sequence
    BY DEF StagedInv, ResolvedInStagedOrder, HeadIsLastVisible
  <1>11. /\ W = u .. w /\ w = u + m - 1
    OBVIOUS
  <1> HIDE DEF S, T, C, D, n, c, w, W
  <1>12. \A k \in 1 .. c : C[k].sequence <= latest_sequence
    <2> TAKE k \in 1 .. c
    <2>1. c # 0 /\ latest_sequence = C[c].sequence /\ c \in 1 .. c
      BY <1>1, <1>9
    <2>2. CASE k = c
      BY <2>1, <2>2, <1>5
    <2>3. CASE k < c
      BY <2>1, <2>3, <1>4, <1>5
    <2> QED
      BY <2>2, <2>3, <1>1
  <1>13. \A v \in Visible : m > 0 => v < u
    BY <1>1, <1>3, <1>4, <1>11
  <1>14. ResolvedInStagedOrder'
    <2>1. {D[k] : k \in DOMAIN D} = {EnvelopeOf(T[i]) : i \in Visible'}
      <3>1. {C[k] : k \in DOMAIN C} = {EnvelopeOf(S[i]) : i \in Visible}
        BY <1>10
      <3>2. ASSUME NEW k \in 1 .. (c + m) PROVE \E i \in Visible' : D[k] = EnvelopeOf(T[i])
        <4>1. CASE k <= c
          <5>1. PICK i \in Visible : C[k] = EnvelopeOf(S[i])
            <6>1. k \in DOMAIN C
              BY <4>1, <1>1
            <6> QED
              BY <6>1, <3>1, Zenon
          <5> QED
            BY <5>1, <4>1, <1>1, <1>2, <1>3, <1>5
        <4>2. CASE k > c
          <5>1. /\ k - c \in 1 .. m /\ c + (k - c) = k
            BY <4>2, <1>1
          <5>2. D[k] = EnvelopeOf(S[u + (k - c) - 1]) /\ u + (k - c) - 1 \in W
            BY <5>1, <1>5
          <5> QED
            BY <5>2, <1>2, <1>3
        <4> QED
          BY <4>1, <4>2, <1>1
      <3>3. ASSUME NEW i \in Visible' PROVE \E k \in 1 .. (c + m) : D[k] = EnvelopeOf(T[i])
        <4>1. CASE i \in Visible
          <5>1. PICK k \in 1 .. c : C[k] = EnvelopeOf(S[i])
            BY <3>1, <4>1, <1>1
          <5> QED
            BY <5>1, <4>1, <1>1, <1>2, <1>3, <1>5
        <4>2. CASE i \in W
          <5>1. /\ i - u + 1 \in 1 .. m /\ u + (i - u + 1) - 1 = i
            BY <4>2, <1>11
          <5>2. D[c + (i - u + 1)] = EnvelopeOf(S[i])
            BY <5>1, <1>5
          <5>3. c + (i - u + 1) \in 1 .. (c + m)
            BY <5>1, <1>1
          <5> QED
            BY <5>2, <5>3, <4>2, <1>2, <1>3
        <4> QED
          BY <4>1, <4>2, <1>3
      <3> QED
        <4>1. DOMAIN D = 1 .. (c + m)
          BY <1>1
        <4>2. ASSUME NEW e \in {D[k] : k \in DOMAIN D}
              PROVE  e \in {EnvelopeOf(T[i]) : i \in Visible'}
          <5>1. PICK k \in 1 .. (c + m) : e = D[k]
            BY <4>1, <4>2, Zenon
          <5> QED
            BY <5>1, <3>2, Zenon
        <4>3. ASSUME NEW e \in {EnvelopeOf(T[i]) : i \in Visible'}
              PROVE  e \in {D[k] : k \in DOMAIN D}
          <5>1. PICK i \in Visible' : e = EnvelopeOf(T[i])
            BY <4>3, Zenon
          <5> QED
            BY <5>1, <4>1, <3>3, Zenon
        <4> QED
          BY <4>2, <4>3, Zenon
    <2>2. \A k, l \in 1 .. (c + m) : k < l => D[k].sequence < D[l].sequence
      <3> TAKE k, l \in 1 .. (c + m)
      <3> HAVE k < l
      <3>1. CASE l <= c
        BY <3>1, <1>1, <1>4, <1>5
      <3>2. CASE l > c
        <4>1. l - c \in 1 .. m /\ c + (l - c) = l
          BY <3>2, <1>1
        <4>2. /\ D[l] = EnvelopeOf(S[u + (l - c) - 1]) /\ u + (l - c) - 1 \in W
              /\ D[l].sequence = S[u + (l - c) - 1].sequence
          BY <4>1, <1>5, <1>2, <1>3
        <4>3. CASE k <= c
          <5>1. D[k].sequence <= latest_sequence /\ D[k].sequence \in Nat
            BY <4>3, <1>1, <1>5, <1>12
          <5>2. D[l].sequence > latest_sequence /\ D[l].sequence \in Nat
            BY <4>2, <1>2, <1>3, <1>8
          <5> QED
            BY <5>1, <5>2, <1>6
        <4>4. CASE k > c
          <5>1. k - c \in 1 .. m /\ c + (k - c) = k
            BY <4>4, <1>1
          <5>2. /\ u + (k - c) - 1 \in W
                /\ D[k].sequence = S[u + (k - c) - 1].sequence
            BY <5>1, <1>5, <1>2, <1>3
          <5> QED
            <6>1. u + (k - c) - 1 \in 1 .. n /\ u + (l - c) - 1 \in 1 .. n
              BY <5>2, <4>2, <1>3
            <6>2. u + (k - c) - 1 < u + (l - c) - 1
              BY <1>1
            <6> QED
              BY <6>1, <6>2, <5>2, <4>2, <1>4
        <4> QED
          BY <4>3, <4>4, <1>1
      <3> QED
        BY <3>1, <3>2, <1>1
    <2>3. \A i, j \in 1 .. n : i < j => T[i].sequence < T[j].sequence
      BY <1>2, <1>4
    <2>4. \A i \in 1 .. n, j \in Unresolved' : j < i => i \in Unresolved'
      <3> SUFFICES ASSUME NEW i \in 1 .. n, NEW j \in Unresolved', j < i
                   PROVE  i \in Unresolved'
        OBVIOUS
      <3>1. Unresolved' = Unresolved \ W /\ j \in Unresolved /\ j \notin W /\ j \in 1 .. n
        BY <1>3
      <3>2. i \in Unresolved
        BY <3>1, <1>4
      <3>3. i \notin W
        BY <3>1, <1>1, <1>3, <1>11
      <3> QED
        BY <3>1, <3>2, <3>3
    <2> QED
      BY <1>1, <2>1, <2>2, <2>3, <2>4 DEF ResolvedInStagedOrder, T, D
  <1>15. PendingLinked'
    <2> SUFFICES ASSUME NEW i \in Unresolved'
                 PROVE  /\ T[i].sequence > latest_sequence'
                        /\ T[i].prev = IF i - 1 \in Unresolved' THEN digest(EnvelopeOf(T[i - 1]))
                                       ELSE previous_log_chain'
      BY DEF PendingLinked, T
    <2>1. /\ i \in Unresolved /\ i \notin W /\ Unresolved' = Unresolved \ W /\ i \in 1 .. n
          /\ T[i].sequence = S[i].sequence /\ T[i].prev = S[i].prev
      BY <1>2, <1>3
    <2>2. m > 0 => w < i /\ w \in 1 .. n /\ w \in Unresolved /\ u \in Unresolved
      BY <2>1, <1>1, <1>3, <1>11
    <2>3. T[i].sequence > latest_sequence'
      <3>1. CASE m = 0
        BY <3>1, <2>1, <1>6, <1>8
      <3>2. CASE m > 0
        BY <3>2, <2>1, <2>2, <1>4, <1>6, <1>2
      <3> QED
        BY <3>1, <3>2
    <2>4. S[i].prev = IF i - 1 \in Unresolved THEN digest(EnvelopeOf(S[i - 1]))
                      ELSE previous_log_chain
      BY <2>1, <1>8
    <2>5. CASE i - 1 \in Unresolved'
      BY <2>5, <2>1, <2>3, <2>4, <1>2, <1>3
    <2>6. CASE i - 1 \notin Unresolved' /\ m = 0
      BY <2>6, <2>1, <2>3, <2>4, <1>6, <1>1, <1>11
    <2>7. CASE i - 1 \notin Unresolved' /\ m > 0
      <3>1. i - 1 \in Unresolved
        BY <2>7, <2>1, <2>2, <1>1, <1>4, <1>11
      <3>2. i - 1 = w
        BY <3>1, <2>7, <2>1, <2>2, <1>1, <1>3, <1>11
      <3> QED
        BY <3>1, <3>2, <2>1, <2>3, <2>4, <2>7, <1>6
    <2> QED
      BY <2>5, <2>6, <2>7
  <1>16. HeadIsLastVisible'
    <2>1. CASE m = 0
      <3>1. Visible' = Visible
        BY <2>1, <1>1, <1>3, <1>11
      <3> QED
        BY <3>1, <2>1, <1>2, <1>3, <1>6, <1>10 DEF HeadIsLastVisible, T
    <2>2. CASE m > 0
      <3>1. w \in Visible'
        BY <2>2, <1>1, <1>3
      <3>2. \A j \in Visible' : j <= w
        BY <2>2, <1>1, <1>3, <1>13, <1>11
      <3>3. /\ previous_log_chain' = digest(EnvelopeOf(T[w]))
            /\ latest_sequence' = T[w].sequence
        BY <2>2, <1>1, <1>2, <1>3, <1>6
      <3> QED
        BY <3>1, <3>2, <3>3 DEF HeadIsLastVisible, T
    <2> QED
      BY <2>1, <2>2
  <1>17. ChainUnbroken'
    <2>2. previous_log_chain[2] = latest_sequence
      BY <1>9 DEF Genesis, digest
    <2>3. ASSUME NEW k \in 1 .. (c + m)
          PROVE  LET before == IF k = 1 THEN Genesis ELSE digest(D[k - 1]) IN
                 D[k].prev = before /\ D[k].sequence > before[2]
      <3>1. CASE k <= c
        <4>1. D[k] = C[k] /\ (k # 1 => D[k - 1] = C[k - 1])
          BY <3>1, <1>1, <1>5
        <4> QED
          BY <3>1, <4>1, <1>9, <1>1
      <3>2. CASE k = c + 1
        <4>1. /\ D[k] = EnvelopeOf(S[u]) /\ u \in Unresolved /\ u - 1 \notin Unresolved
              /\ D[k].prev = S[u].prev /\ D[k].sequence = S[u].sequence
          <5>1. 1 \in 1 .. m /\ u + 1 - 1 = u /\ m > 0
            BY <3>2, <1>1
          <5>2. D[c + 1] = EnvelopeOf(S[u]) /\ u \in W
            BY <5>1, <1>5
          <5>3. u - 1 \notin Unresolved
            BY <5>1, <1>1, <1>3, <1>11
          <5> QED
            BY <5>2, <5>3, <3>2, <1>2, <1>3
        <4>2. D[k].prev = previous_log_chain /\ D[k].sequence > latest_sequence
          BY <4>1, <1>8
        <4>3. (IF k = 1 THEN Genesis ELSE digest(D[k - 1])) = previous_log_chain
          BY <1>9, <3>2, <1>1, <1>5
        <4> QED
          BY <4>2, <4>3, <2>2
      <3>3. CASE k > c + 1
        <4> DEFINE i == u + (k - c) - 1
        <4>1. /\ k - c \in 1 .. m /\ c + (k - c) = k
              /\ k - 1 - c \in 1 .. m /\ c + (k - 1 - c) = k - 1
              /\ u + (k - 1 - c) - 1 = i - 1
          BY <3>3, <1>1
        <4>2. /\ D[k] = EnvelopeOf(S[i]) /\ i \in W
              /\ D[k - 1] = EnvelopeOf(S[i - 1]) /\ i - 1 \in W
          BY <4>1, <1>5
        <4>3. /\ D[k].prev = S[i].prev /\ D[k].sequence = S[i].sequence
              /\ S[i].prev = digest(EnvelopeOf(S[i - 1]))
              /\ digest(EnvelopeOf(S[i - 1]))[2] = S[i - 1].sequence
              /\ S[i - 1].sequence < S[i].sequence
          <5>1. i \in Unresolved /\ i - 1 \in Unresolved /\ i \in 1 .. n /\ i - 1 \in 1 .. n
            BY <4>2, <1>3
          <5>2. S[i].prev = digest(EnvelopeOf(S[i - 1]))
            BY <5>1, <1>8
          <5>3. i - 1 < i
            BY <1>1
          <5> QED
            BY <5>1, <5>2, <5>3, <4>2, <1>2, <1>4
        <4>4. k # 1
          BY <3>3, <1>1
        <4> HIDE DEF i
        <4>5. i \in 1 .. n /\ i - 1 \in 1 .. n
          BY <4>2, <1>3
        <4>6. S[i].sequence \in Nat /\ S[i - 1].sequence \in Nat
          BY <4>5, <1>2
        <4> QED
          BY <4>2, <4>3, <4>4, <4>6
      <3> QED
        BY <3>1, <3>2, <3>3, <1>1
    <2>4. << previous_log_chain', latest_sequence' >> =
             IF c + m = 0 THEN << Genesis, 0 >>
             ELSE << digest(D[c + m]), D[c + m].sequence >>
      <3>1. CASE m = 0
        BY <3>1, <1>9, <1>1, <1>5, <1>6
      <3>2. CASE m > 0
        <4>1. D[c + m] = EnvelopeOf(S[w]) /\ w \in 1 .. n
          BY <3>2, <1>1, <1>3, <1>5, <1>11
        <4> QED
          BY <3>2, <4>1, <1>1, <1>2, <1>6, <1>11
      <3> QED
        BY <3>1, <3>2
    <2> QED
      BY <2>3, <2>4, <1>1 DEF ChainUnbroken, D
  <1> QED
    BY <1>7, <1>14, <1>15, <1>16, <1>17 DEF StagedInv

\* Resolving a window keeps the staged transactions ordered.
LEMMA WindowOrdered ==
  ASSUME DomainTyped, StagedOrdered, NEW u \in Nat \ {0}, NEW m \in Nat,
         WindowResolved(u, m)
  PROVE  StagedOrdered'
  <1> DEFINE S == staged_transactions
             T == staged_transactions'
             W == u .. (u + m - 1)
  <1>1. Staged' = Staged /\ \A i \in Staged : T[i] \in StagedRecords /\ S[i] \in StagedRecords
    BY StagedTyped DEF WindowResolved, Staged, DomainTyped
  <1>2. \A i \in Staged : T[i].sequence = S[i].sequence
    <2> TAKE i \in Staged
    <2>1. EnvelopeOf(T[i]) = EnvelopeOf(S[i])
      BY DEF WindowResolved
    <2>2. EnvelopeOf(T[i]).sequence = T[i].sequence /\ EnvelopeOf(S[i]).sequence = S[i].sequence
      BY <1>1, EnvelopeTyped
    <2> QED
      BY <2>1, <2>2
  <1>3. \A i, j \in Staged : i < j => T[i].sequence < T[j].sequence
    BY <1>2 DEF StagedOrdered
  <1>4. ASSUME NEW i \in Staged, NEW j \in Unresolved', j < i
        PROVE  i \in Unresolved'
    <2>1. /\ Unresolved' = Unresolved \ W /\ j \in Unresolved /\ j \notin W
          /\ j \in Staged /\ j \in Nat /\ i \in Nat
          /\ m > 0 => u <= j
      BY StagedTyped DEF WindowResolved, Unresolved
    <2>2. i \in Unresolved
      BY <1>4, <2>1 DEF StagedOrdered
    <2>3. i \notin W
      BY <1>4, <2>1
    <2> QED
      BY <2>1, <2>2, <2>3
  <1> QED
    BY <1>1, <1>3, <1>4 DEF StagedOrdered

\* The greatest member of a set of indexes is its LastOf.
LEMMA LastOfIs ==
  ASSUME NEW n \in Nat, NEW L \in SUBSET (1 .. n), NEW l \in L, \A j \in L : j <= l
  PROVE  LastOf(L) = l
  <1>1. LastOf(L) \in L /\ \A j \in L : j <= LastOf(L)
    BY Zenon DEF LastOf
  <1> DEFINE k == LastOf(L)
  <1>2. k \in L /\ l <= k /\ k <= l
    BY <1>1
  <1> HIDE DEF k
  <1>3. k \in 1 .. n /\ l \in 1 .. n
    BY <1>2
  <1> QED
    BY <1>2, <1>3 DEF k

\* Where Stage chains a new envelope: to the last staged one if that is still
\* unresolved, and otherwise to the chain head.
LEMMA StagedChainIs ==
  ASSUME StagedInv
  PROVE  LET n == Len(staged_transactions) IN
         staged_log_chain = IF n \in Unresolved
                            THEN digest(EnvelopeOf(staged_transactions[n]))
                            ELSE previous_log_chain
  <1> DEFINE n == Len(staged_transactions)
             live == {i \in Staged : staged_transactions[i].status # "aborted"}
  <1>1. n \in Nat /\ Staged = 1 .. n /\ live \in SUBSET (1 .. n)
    BY DEF StagedInv, DomainTyped, Staged
  <1>2. CASE n \in Unresolved
    <2>1. n \in live /\ \A j \in live : j <= n
      BY <1>1, <1>2 DEF Unresolved
    <2>2. LastOf(live) = n
      BY <1>1, <2>1, LastOfIs
    <2> QED
      BY <1>2, <2>1, <2>2 DEF staged_log_chain
  <1>3. CASE n \notin Unresolved
    <2>1. Unresolved = {}
      <3> SUFFICES ASSUME NEW j \in Unresolved PROVE FALSE
        OBVIOUS
      <3>1. j \in 1 .. n /\ j # n /\ n \in 1 .. n
        BY <1>1, <1>3 DEF Unresolved
      <3> QED
        BY <3>1, <1>1, <1>3 DEF StagedInv, ResolvedInStagedOrder
    <2>2. \A i \in 1 .. n : staged_transactions[i].status \in {"pending", "visible", "aborted"}
      BY <1>1, StagedTyped DEF StagedInv
    <2>3. live = Visible
      <3>1. \A i \in 1 .. n : staged_transactions[i].status # "pending"
        BY <1>1, <2>1 DEF Unresolved
      <3>2. \A i \in 1 .. n : staged_transactions[i].status # "aborted" <=>
                             staged_transactions[i].status = "visible"
        BY <2>2, <3>1
      <3> QED
        BY <1>1, <3>2 DEF Visible
    <2>4. CASE live = {}
      BY <1>3, <2>4 DEF staged_log_chain
    <2>5. CASE live # {}
      <3>1. PICK v \in live : /\ \A j \in live : j <= v
                             /\ previous_log_chain = digest(EnvelopeOf(staged_transactions[v]))
        BY <2>3, <2>5 DEF StagedInv, HeadIsLastVisible
      <3>2. LastOf(live) = v
        BY <1>1, <3>1, LastOfIs
      <3> QED
        BY <1>3, <2>5, <3>1, <3>2 DEF staged_log_chain
    <2> QED
      BY <2>4, <2>5
  <1> QED
    BY <1>2, <1>3

\* Stage allocates a version above the frontier and above every staged version,
\* the aborted ones included.
LEMMA NextVersion ==
  ASSUME StagedInv
  PROVE  /\ next_commit_sequence \in Nat \ {0}
         /\ next_commit_sequence > latest_sequence
         /\ \A i \in Staged : staged_transactions[i].sequence < next_commit_sequence
  <1> DEFINE S == staged_transactions
             n == Len(staged_transactions)
  <1>1. /\ n \in Nat /\ Staged = 1 .. n /\ latest_sequence \in Nat
        /\ \A i \in 1 .. n : S[i].sequence \in Nat
        /\ S = << >> <=> n = 0
    <2>1. /\ S \in Seq(StagedRecords) /\ latest_sequence \in Nat
      BY DEF StagedInv, DomainTyped
    <2>2. S = << >> <=> n = 0
      BY <2>1
    <2> QED
      BY <2>1, <2>2, StagedTyped DEF StagedInv
  <1>2. CASE n = 0
    BY <1>1, <1>2 DEF next_commit_sequence
  <1>3. CASE n # 0
    <2>1. /\ next_commit_sequence = S[n].sequence + 1 /\ n \in 1 .. n
      BY <1>1, <1>3 DEF next_commit_sequence
    <2>2. \A i \in 1 .. n : S[i].sequence <= S[n].sequence
      <3> TAKE i \in 1 .. n
      <3>1. i < n => S[i].sequence < S[n].sequence
        BY <1>1, <2>1 DEF StagedInv, ResolvedInStagedOrder
      <3> QED
        BY <1>1, <3>1, <2>1
    <2>3. latest_sequence <= S[n].sequence
      <3>1. CASE Visible = {}
        BY <1>1, <2>1, <3>1 DEF StagedInv, HeadIsLastVisible
      <3>2. CASE Visible # {}
        <4>1. Visible \in SUBSET (1 .. n)
          BY <1>1 DEF Visible
        <4>2. PICK v \in Visible : latest_sequence = S[v].sequence
          BY <3>2 DEF StagedInv, HeadIsLastVisible
        <4> QED
          BY <2>2, <4>1, <4>2
      <3> QED
        BY <3>1, <3>2
    <2> QED
      BY <1>1, <2>1, <2>2, <2>3
  <1> QED
    BY <1>2, <1>3

\* Stage preserves the invariant.
LEMMA StageInv ==
  ASSUME StagedInv, authority \in AuthorityType,
         NEW t \in Txns, NEW resolution, Stage(t, resolution)
  PROVE  StagedInv'
  <1> DEFINE S == staged_transactions
             T == staged_transactions'
             n == Len(staged_transactions)
             r == [ id           |-> t,
                    generation   |-> domain_generation,
                    credential   |-> Credential,
                    sequence     |-> next_commit_sequence,
                    prev         |-> staged_log_chain,
                    receipts     |-> {},
                    certificates |-> {},
                    status       |-> "pending" ]
  <1>1. /\ S \in Seq(StagedRecords) /\ n \in Nat /\ Staged = 1 .. n
        /\ T = Append(S, r)
        /\ domain_generation \in Nat /\ latest_sequence \in Nat
        /\ previous_log_chain \in ChainHeads
    BY DEF StagedInv, DomainTyped, Stage, Staged
  <1>2. UNCHANGED << domain_generation, latest_sequence, committed_envelopes,
                     previous_log_chain >>
    BY DEF Stage
  <1>3. /\ next_commit_sequence \in Nat \ {0}
        /\ next_commit_sequence > latest_sequence
        /\ \A i \in 1 .. n : S[i].sequence < next_commit_sequence
    BY <1>1, NextVersion
  <1>4. staged_log_chain = IF n \in Unresolved THEN digest(EnvelopeOf(S[n]))
                           ELSE previous_log_chain
    BY StagedChainIs
  <1>5. staged_log_chain \in ChainHeads
    <2>1. n \in Unresolved => S[n] \in StagedRecords
      BY StagedTyped DEF StagedInv, Unresolved
    <2> QED
      BY <1>1, <1>4, <2>1, EnvelopeTyped
  <1>6. r \in StagedRecords
    <2>1. Credential \in Nat \X (TxSystems \cup {None})
      BY DEF Credential, AuthorityType
    <2> QED
      BY <1>1, <1>3, <1>5, <2>1 DEF StagedRecords
  <1>7. r.sequence = next_commit_sequence /\ r.prev = staged_log_chain /\ r.status = "pending"
    OBVIOUS
  <1> HIDE DEF r
  <1>8. /\ T \in Seq(StagedRecords) /\ Len(T) = n + 1 /\ Staged' = 1 .. (n + 1)
        /\ \A i \in 1 .. n : T[i] = S[i]
        /\ T[n + 1] = r
    BY <1>1, <1>6 DEF Staged
  <1>9. /\ Unresolved = {i \in 1 .. n : S[i].status = "pending"}
        /\ Unresolved' = {i \in 1 .. (n + 1) : T[i].status = "pending"}
        /\ Visible = {i \in 1 .. n : S[i].status = "visible"}
        /\ Visible' = {i \in 1 .. (n + 1) : T[i].status = "visible"}
    BY <1>1, <1>8 DEF Unresolved, Visible
  <1>10. /\ \A i \in 1 .. n : i \in Unresolved' <=> i \in Unresolved
         /\ n + 1 \in Unresolved' /\ n + 1 \notin Visible'
         /\ \A i \in 1 .. n : i \in Visible' <=> i \in Visible
         /\ Unresolved' \subseteq 1 .. (n + 1) /\ Visible \subseteq 1 .. n
         /\ Visible' \subseteq 1 .. (n + 1) /\ Unresolved \subseteq 1 .. n
    BY <1>1, <1>7, <1>8, <1>9
  <1>11. Visible' = Visible
    <2>1. \A i \in 1 .. (n + 1) : i = n + 1 \/ i \in 1 .. n
      BY <1>1
    <2>2. \A i \in Visible' : i \in Visible
      BY <1>10, <2>1, Zenon
    <2>3. \A i \in Visible : i \in Visible'
      BY <1>10, Zenon
    <2> QED
      BY <2>2, <2>3, Zenon
  <1>12. \A i \in 1 .. n : S[i].sequence \in Nat
    BY <1>1, StagedTyped DEF StagedInv
  <1> HIDE DEF S, T, n
  <1>13. DomainTyped'
    BY <1>2, <1>8 DEF StagedInv, DomainTyped, T
  <1>14. ResolvedInStagedOrder'
    <2>1. {committed_envelopes[k] : k \in DOMAIN committed_envelopes} =
             {EnvelopeOf(S[i]) : i \in Visible}
      BY DEF StagedInv, ResolvedInStagedOrder, S
    <2>2. \A i \in Visible : EnvelopeOf(T[i]) = EnvelopeOf(S[i])
      BY <1>8, <1>10
    <2>3. {EnvelopeOf(T[i]) : i \in Visible'} = {EnvelopeOf(S[i]) : i \in Visible}
      BY <1>11, <2>2
    <2>4. {committed_envelopes'[k] : k \in DOMAIN committed_envelopes'} =
             {EnvelopeOf(T[i]) : i \in Visible'}
      BY <1>2, <2>1, <2>3
    <2>5. \A i, j \in 1 .. (n + 1) : i < j => T[i].sequence < T[j].sequence
      <3> TAKE i, j \in 1 .. (n + 1)
      <3> HAVE i < j
      <3>1. CASE j <= n
        <4>1. S[i].sequence < S[j].sequence
          BY <3>1, <1>1 DEF StagedInv, ResolvedInStagedOrder, S
        <4> QED
          BY <3>1, <4>1, <1>1, <1>8
      <3>2. CASE j = n + 1
        <4>1. i \in 1 .. n
          BY <3>2, <1>1
        <4>2. T[i].sequence = S[i].sequence /\ T[j].sequence = next_commit_sequence
          BY <3>2, <4>1, <1>7, <1>8
        <4>3. S[i].sequence < next_commit_sequence
          BY <4>1, <1>3
        <4> QED
          BY <4>2, <4>3
      <3>3. j <= n \/ j = n + 1
        BY <1>1
      <3> QED
        BY <3>1, <3>2, <3>3
    <2>6. \A i \in 1 .. (n + 1), j \in Unresolved' : j < i => i \in Unresolved'
      <3> TAKE i \in 1 .. (n + 1), j \in Unresolved'
      <3> HAVE j < i
      <3>1. CASE i <= n
        <4>1. j \in Unresolved /\ i \in 1 .. n
          BY <3>1, <1>1, <1>10
        <4>2. i \in Unresolved
          BY <4>1, <1>1 DEF StagedInv, ResolvedInStagedOrder
        <4> QED
          BY <4>1, <4>2, <1>10
      <3>2. CASE i = n + 1
        BY <3>2, <1>10
      <3> QED
        BY <3>1, <3>2, <1>1
    <2>7. \A k, l \in DOMAIN committed_envelopes' :
             k < l => committed_envelopes'[k].sequence < committed_envelopes'[l].sequence
      BY <1>2 DEF StagedInv, ResolvedInStagedOrder
    <2> QED
      BY <1>8, <2>4, <2>5, <2>6, <2>7 DEF ResolvedInStagedOrder, T
  <1>15. PendingLinked'
    <2> SUFFICES ASSUME NEW i \in Unresolved'
                 PROVE  /\ T[i].sequence > latest_sequence
                        /\ T[i].prev = IF i - 1 \in Unresolved'
                                       THEN digest(EnvelopeOf(T[i - 1]))
                                       ELSE previous_log_chain
      BY <1>2 DEF PendingLinked, T
    <2>1. CASE i = n + 1
      <3>1. n + 1 - 1 = n /\ (n \in Unresolved' <=> n \in Unresolved)
        BY <1>1, <1>10
      <3>2. n \in Unresolved => T[n] = S[n]
        BY <1>8, <1>10
      <3> QED
        BY <2>1, <3>1, <3>2, <1>3, <1>4, <1>7, <1>8 DEF n, S
    <2>2. CASE i # n + 1
      <3>1. /\ i \in 1 .. n /\ i \in Unresolved
            /\ i - 1 \in Unresolved' <=> i - 1 \in Unresolved
            /\ T[i] = S[i] /\ (i - 1 \in Unresolved => T[i - 1] = S[i - 1])
        BY <2>2, <1>1, <1>8, <1>10
      <3>2. /\ S[i].sequence > latest_sequence
            /\ S[i].prev = IF i - 1 \in Unresolved THEN digest(EnvelopeOf(S[i - 1]))
                           ELSE previous_log_chain
        BY <3>1 DEF StagedInv, PendingLinked, S
      <3> QED
        BY <3>1, <3>2
    <2> QED
      BY <2>1, <2>2
  <1>16. HeadIsLastVisible'
    <2>1. \A i \in Visible : T[i] = S[i]
      BY <1>8, <1>10
    <2>2. \/ Visible = {} /\ previous_log_chain = Genesis /\ latest_sequence = 0
          \/ \E v \in Visible :
               /\ \A j \in Visible : j <= v
               /\ previous_log_chain = digest(EnvelopeOf(S[v]))
               /\ latest_sequence = S[v].sequence
      BY DEF StagedInv, HeadIsLastVisible, S
    <2> QED
      BY <1>2, <1>11, <2>1, <2>2 DEF HeadIsLastVisible, T
  <1>17. ChainUnbroken'
    BY <1>2 DEF StagedInv, ChainUnbroken
  <1> QED
    BY <1>13, <1>14, <1>15, <1>16, <1>17 DEF StagedInv

-----------------------------------------------------------------------------
(***************************************************************************)
(* Outcomes are final.  What the generations of the staged transactions    *)
(* say: an unresolved one is of the domain's generation, and an aborted    *)
(* one of an earlier generation, so that a takeover, which names a         *)
(* transaction of the domain's generation that is not visible, names the   *)
(* unresolved one.                                                         *)
(***************************************************************************)
GenerationsAgree ==
    \A i \in Staged :
       /\ staged_transactions[i].status = "pending" =>
             staged_transactions[i].generation = domain_generation
       /\ staged_transactions[i].status = "aborted" =>
             staged_transactions[i].generation < domain_generation

DecisionInv == DomainTyped /\ StagedOrdered /\ GenerationsAgree

\* The step that DecisionsAreFinal allows.
DecisionsKept ==
    /\ domain_generation' >= domain_generation
    /\ \A i \in Staged :
          LET old == staged_transactions[i]
              new == staged_transactions'[i] IN
          /\ EnvelopeOf(new) = EnvelopeOf(old)
          /\ old.status # "pending" => new.status = old.status

\* More evidence leaves the envelope, the status and the type alone.
LEMMA EvidenceUpdate ==
  ASSUME NEW s \in StagedRecords, NEW set \in LogSets
  PROVE  /\ [s EXCEPT !.receipts = @ \cup {set}] \in StagedRecords
         /\ EnvelopeOf([s EXCEPT !.receipts = @ \cup {set}]) = EnvelopeOf(s)
         /\ [s EXCEPT !.receipts = @ \cup {set}].status = s.status
         /\ [s EXCEPT !.receipts = @ \cup {set}].generation = s.generation
         /\ [s EXCEPT !.certificates = @ \cup {set}] \in StagedRecords
         /\ EnvelopeOf([s EXCEPT !.certificates = @ \cup {set}]) = EnvelopeOf(s)
         /\ [s EXCEPT !.certificates = @ \cup {set}].status = s.status
         /\ [s EXCEPT !.certificates = @ \cup {set}].generation = s.generation
  BY DEF StagedRecords, EnvelopeOf, Envelope

\* So does a new status.
LEMMA StatusUpdate ==
  ASSUME NEW s \in StagedRecords, NEW status \in {"pending", "visible", "aborted"}
  PROVE  /\ [s EXCEPT !.status = status] \in StagedRecords
         /\ EnvelopeOf([s EXCEPT !.status = status]) = EnvelopeOf(s)
         /\ [s EXCEPT !.status = status].status = status
         /\ [s EXCEPT !.status = status].generation = s.generation
         /\ [s EXCEPT !.status = status].certificates = s.certificates
  BY DEF StagedRecords, EnvelopeOf, Envelope

\* One staged transaction is replaced and the others stay.
LEMMA OneUpdated ==
  ASSUME DomainTyped, NEW i \in Staged, NEW s \in StagedRecords,
         EnvelopeOf(s) = EnvelopeOf(staged_transactions[i]),
         staged_transactions' = [staged_transactions EXCEPT ![i] = s]
  PROVE  /\ staged_transactions' \in Seq(StagedRecords)
         /\ Len(staged_transactions') = Len(staged_transactions)
         /\ Staged' = Staged
         /\ \A j \in Staged : /\ staged_transactions'[j] =
                                   IF j = i THEN s ELSE staged_transactions[j]
                              /\ EnvelopeOf(staged_transactions'[j]) =
                                   EnvelopeOf(staged_transactions[j])
  <1> DEFINE S == staged_transactions
             T == staged_transactions'
  <1>1. S \in Seq(StagedRecords)
    BY DEF DomainTyped
  <1>2. /\ T \in Seq(StagedRecords) /\ Len(T) = Len(S)
        /\ \A j \in 1 .. Len(S) : T[j] = IF j = i THEN s ELSE S[j]
    BY <1>1 DEF Staged
  <1>3. Staged = 1 .. Len(S) /\ Staged' = Staged
    BY <1>1, <1>2 DEF Staged
  <1> QED
    BY <1>2, <1>3

\* A step that commits nothing and keeps the envelopes resolves an empty window.
LEMMA EmptyWindow ==
  ASSUME staged_transactions' \in Seq(StagedRecords),
         Len(staged_transactions') = Len(staged_transactions),
         \A j \in Staged : EnvelopeOf(staged_transactions'[j]) = EnvelopeOf(staged_transactions[j]),
         Visible' = Visible,
         Unresolved' = Unresolved \/ Unresolved' = {},
         committed_envelopes \in Seq(EnvelopeRecords),
         UNCHANGED << committed_envelopes, latest_sequence, previous_log_chain >>,
         domain_generation' \in Nat
  PROVE  WindowResolved(1, 0)
  <1>1. 1 .. (1 + 0 - 1) = {} /\ 1 .. 0 = {}
    OBVIOUS
  <1>2. /\ committed_envelopes' \in Seq(EnvelopeRecords)
        /\ Len(committed_envelopes') = Len(committed_envelopes) + 0
        /\ \A k \in 1 .. Len(committed_envelopes) :
              committed_envelopes'[k] = committed_envelopes[k]
    OBVIOUS
  <1>3. \A k \in 1 .. 0 : committed_envelopes'[Len(committed_envelopes) + k] =
                            EnvelopeOf(staged_transactions[1 + k - 1])
    BY <1>1
  <1>4. /\ 1 .. (1 + 0 - 1) \subseteq Unresolved
        /\ \A j \in Unresolved : 0 > 0 => 1 <= j
        /\ Visible' = Visible \cup (1 .. (1 + 0 - 1))
        /\ \/ Unresolved' = {}
           \/ Unresolved' = Unresolved \ (1 .. (1 + 0 - 1))
    BY <1>1
  <1>5. IF 0 = 0
        THEN UNCHANGED << latest_sequence, previous_log_chain >>
        ELSE /\ latest_sequence' = staged_transactions[1 + 0 - 1].sequence
             /\ previous_log_chain' = digest(EnvelopeOf(staged_transactions[1 + 0 - 1]))
    OBVIOUS
  <1> QED
    BY <1>2, <1>3, <1>4, <1>5 DEF WindowResolved

\* A receipt or a certificate decides nothing.
LEMMA EvidenceStep ==
  ASSUME DecisionInv, NEW i \in Staged, NEW set \in LogSets, NEW signers,
         RecordLogReceipt(i, set, signers) \/ RecordLogCertificate(i, set, signers)
  PROVE  /\ DecisionInv' /\ DecisionsKept
         /\ WindowResolved(1, 0)
  <1> DEFINE S == staged_transactions
             T == staged_transactions'
  <1>1. S[i] \in StagedRecords
    BY StagedTyped DEF DecisionInv
  <1>2. PICK s \in StagedRecords : /\ EnvelopeOf(s) = EnvelopeOf(S[i])
                                   /\ s.status = S[i].status
                                   /\ s.generation = S[i].generation
                                   /\ T = [S EXCEPT ![i] = s]
    <2>1. CASE RecordLogReceipt(i, set, signers)
      BY <1>1, <2>1, EvidenceUpdate DEF RecordLogReceipt, staged_only
    <2>2. CASE RecordLogCertificate(i, set, signers)
      BY <1>1, <2>2, EvidenceUpdate DEF RecordLogCertificate, staged_only
    <2> QED
      BY <2>1, <2>2
  <1>3. UNCHANGED << domain_generation, latest_sequence, committed_envelopes,
                     previous_log_chain >>
    BY DEF RecordLogReceipt, RecordLogCertificate, staged_only
  <1>4. /\ T \in Seq(StagedRecords) /\ Len(T) = Len(S) /\ Staged' = Staged
        /\ \A j \in Staged : /\ T[j] = IF j = i THEN s ELSE S[j]
                             /\ EnvelopeOf(T[j]) = EnvelopeOf(S[j])
    BY <1>2, OneUpdated DEF DecisionInv
  <1>5. \A j \in Staged : T[j].status = S[j].status /\ T[j].generation = S[j].generation
    BY <1>2, <1>4
  <1>6. domain_generation \in Nat /\ committed_envelopes \in Seq(EnvelopeRecords)
    BY DEF DecisionInv, DomainTyped
  <1>7. DomainTyped' /\ GenerationsAgree'
    BY <1>3, <1>4, <1>5 DEF DecisionInv, DomainTyped, GenerationsAgree
  <1>8. DecisionsKept
    <2>1. domain_generation' >= domain_generation
      BY <1>3, <1>6
    <2>2. \A j \in Staged : /\ EnvelopeOf(T[j]) = EnvelopeOf(S[j])
                            /\ S[j].status # "pending" => T[j].status = S[j].status
      BY <1>4, <1>5
    <2> QED
      BY <2>1, <2>2 DEF DecisionsKept
  <1>9. Unresolved' = Unresolved /\ Visible' = Visible
    BY <1>4, <1>5 DEF Unresolved, Visible
  <1>10. WindowResolved(1, 0)
    BY <1>3, <1>4, <1>6, <1>9, EmptyWindow
  <1> QED
    BY <1>7, <1>8, <1>10, WindowOrdered DEF DecisionInv

\* Making a transaction visible, in a step that leaves the generation alone or
\* that decides the last unresolved transaction.
LEMMA PublishStep ==
  ASSUME DecisionInv, NEW i \in Unresolved, \A j \in Unresolved : i <= j, NEW g \in Nat,
         publish_staged_transaction(i, g),
         \/ g = domain_generation
         \/ g > domain_generation /\ Unresolved = {i}
  PROVE  /\ DecisionInv' /\ DecisionsKept
         /\ WindowResolved(i, 1)
  <1> DEFINE S == staged_transactions
             T == staged_transactions'
             C == committed_envelopes
             s == [S[i] EXCEPT !.status = "visible"]
  <1>1. /\ i \in Staged /\ S[i] \in StagedRecords /\ S[i].status = "pending"
        /\ i \in Nat /\ S[i].sequence \in Nat /\ domain_generation \in Nat
        /\ C \in Seq(EnvelopeRecords)
    BY StagedTyped DEF DecisionInv, Unresolved, DomainTyped
  <1>2. /\ s \in StagedRecords /\ EnvelopeOf(s) = EnvelopeOf(S[i])
        /\ s.status = "visible" /\ s.generation = S[i].generation
    BY <1>1, StatusUpdate
  <1>3. /\ T = [S EXCEPT ![i] = s]
        /\ committed_envelopes' = Append(C, EnvelopeOf(S[i]))
        /\ domain_generation' = g
        /\ latest_sequence' = S[i].sequence
        /\ previous_log_chain' = digest(EnvelopeOf(S[i]))
    BY DEF publish_staged_transaction
  <1> HIDE DEF s
  <1>4. /\ T \in Seq(StagedRecords) /\ Len(T) = Len(S) /\ Staged' = Staged
        /\ \A j \in Staged : /\ T[j] = IF j = i THEN s ELSE S[j]
                             /\ EnvelopeOf(T[j]) = EnvelopeOf(S[j])
    BY <1>1, <1>2, <1>3, OneUpdated DEF DecisionInv
  <1>5. /\ EnvelopeOf(S[i]) \in EnvelopeRecords
        /\ digest(EnvelopeOf(S[i])) \in ChainHeads
    BY <1>1, EnvelopeTyped
  <1>6. /\ committed_envelopes' \in Seq(EnvelopeRecords)
        /\ Len(committed_envelopes') = Len(C) + 1
        /\ \A k \in 1 .. Len(C) : committed_envelopes'[k] = C[k]
        /\ committed_envelopes'[Len(C) + 1] = EnvelopeOf(S[i])
    BY <1>1, <1>3, <1>5
  <1>7. DomainTyped'
    BY <1>1, <1>3, <1>4, <1>5, <1>6 DEF DomainTyped
  <1>8. GenerationsAgree'
    <2> SUFFICES ASSUME NEW j \in Staged
                 PROVE  /\ T[j].status = "pending" => T[j].generation = g
                        /\ T[j].status = "aborted" => T[j].generation < g
      BY <1>3, <1>4 DEF GenerationsAgree
    <2>1. CASE j = i
      BY <2>1, <1>2, <1>4
    <2>2. CASE j # i
      <3>1. /\ T[j] = S[j] /\ S[j].generation \in Nat
            /\ S[j].status = "pending" => j \in Unresolved
            /\ S[j].status = "pending" => S[j].generation = domain_generation
            /\ S[j].status = "aborted" => S[j].generation < domain_generation
        BY <2>2, <1>4, StagedTyped DEF DecisionInv, GenerationsAgree, Unresolved
      <3> QED
        BY <2>2, <3>1, <1>1
    <2> QED
      BY <2>1, <2>2
  <1>9. DecisionsKept
    <2>1. \A j \in Staged : S[j].status # "pending" => T[j].status = S[j].status
      BY <1>1, <1>4
    <2> QED
      BY <2>1, <1>1, <1>3, <1>4 DEF DecisionsKept
  <1>10. Visible' = Visible \cup {i} /\ Unresolved' = Unresolved \ {i}
    <2>1. \A j \in Staged : /\ j \in Visible' <=> j \in Visible \cup {i}
                            /\ j \in Unresolved' <=> j \in Unresolved \ {i}
      BY <1>1, <1>2, <1>4 DEF Visible, Unresolved
    <2>2. /\ Visible \subseteq Staged /\ Visible' \subseteq Staged
          /\ Unresolved \subseteq Staged /\ Unresolved' \subseteq Staged
      BY <1>4 DEF Visible, Unresolved
    <2> QED
      BY <1>1, <2>1, <2>2
  <1>11. WindowResolved(i, 1)
    <2>1. i .. (i + 1 - 1) = {i} /\ i + 1 - 1 = i
      BY <1>1
    <2>2. \A k \in 1 .. 1 : committed_envelopes'[Len(C) + k] = EnvelopeOf(S[i + k - 1])
      <3> TAKE k \in 1 .. 1
      <3>1. k = 1
        OBVIOUS
      <3> QED
        BY <3>1, <2>1, <1>6
    <2> QED
      BY <2>1, <2>2, <1>1, <1>3, <1>4, <1>6, <1>10 DEF WindowResolved
  <1>12. i # 0
    BY StagedTyped DEF DecisionInv, Unresolved
  <1> QED
    BY <1>1, <1>7, <1>8, <1>9, <1>11, <1>12, WindowOrdered DEF DecisionInv
=============================================================================
