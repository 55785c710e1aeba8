-------------------------- MODULE Bootstrap_proofs --------------------------
(***************************************************************************)
(* Proofs about Bootstrap, for every set of structures, every finite set   *)
(* of servers, any contents of Valkey and any number of starts and lost    *)
(* replies.                                                                *)
(***************************************************************************)
EXTENDS Bootstrap, FiniteSetTheorems, TLAPS

-----------------------------------------------------------------------------
(* The inductive invariant, in parts.                                      *)

\* The kinds before the one a process is at are there, and so are the
\* structures of that one that it neither has still to verify nor to create.
SettledFor(p) ==
    /\ pc[p] = "create" => left[p] = {}
    /\ pc[p] \in {"listen", "serving"} =>
          kind[p] = 3 /\ left[p] = {} /\ missing[p] = {}
    /\ pc[p] \in {"verify", "create", "listen", "serving"} =>
          \A k \in 1 .. 3 : \A n \in OfKind(k) :
             k <= kind[p] => Exists(n) \/ (k = kind[p] /\ n \in left[p] \cup missing[p])
    /\ pc[p] \notin {"verify", "create"} => missing[p] = {}

Settled == \A p \in Process : SettledFor(p)

\* The servers that may still add a dummy entry to n: once it exists, those
\* that found it missing before; until then, all that are running.
Adders(n) == IF Exists(n) THEN {p \in Process : n \in missing[p]}
             ELSE {p \in Process : Running(p)}

\* Each of them began when n was not there, and has added none yet.
Accounted(n) == dummies[n] + Cardinality(Adders(n)) <= absent[n] + lost

AllAccounted == \A n \in Name : Accounted(n)

IInv == TypeOK /\ Settled /\ AllAccounted

-----------------------------------------------------------------------------
(* Facts about the constants and about finite sets.                        *)

\* A structure is of one of the three kinds.
LEMMA KindsCover ==
    /\ Len(Kinds) = 3
    /\ \A n \in Name : \E k \in 1 .. 3 : n \in OfKind(k)
    /\ \A k \in 1 .. 3 : OfKind(k) \subseteq Name
BY BootstrapAssumption DEF Kinds, OfKind, Name, Type

\* A set of processes is finite; a smaller one has not more of them, one that
\* lacks a member at least one less, and one with a new member at most one more.
LEMMA Counting ==
    ASSUME NEW S \in SUBSET Process, NEW T \in SUBSET Process
    PROVE  /\ Cardinality(S) \in Nat
           /\ S \subseteq T => Cardinality(S) <= Cardinality(T)
           /\ \A p \in T : S \subseteq T \ {p} => Cardinality(S) + 1 <= Cardinality(T)
           /\ \A p \in Process : S \subseteq T \cup {p} => Cardinality(S) <= Cardinality(T) + 1
<1>1. IsFiniteSet(S) /\ IsFiniteSet(T)
    BY BootstrapAssumption, FS_Subset
<1>2. Cardinality(S) \in Nat /\ Cardinality(T) \in Nat
    BY <1>1, FS_CardinalityType
<1>3. S \subseteq T => Cardinality(S) <= Cardinality(T)
    BY <1>1, FS_Subset
<1>4. ASSUME NEW p \in T, S \subseteq T \ {p}
      PROVE  Cardinality(S) + 1 <= Cardinality(T)
    <2>1. IsFiniteSet(T \ {p}) /\ Cardinality(T \ {p}) = Cardinality(T) - 1
        BY <1>1, FS_RemoveElement
    <2>2. Cardinality(S) <= Cardinality(T \ {p})
        BY <1>4, <2>1, FS_Subset
    <2> QED
        BY <2>1, <2>2, <1>2
<1>5. ASSUME NEW p \in Process, S \subseteq T \cup {p}
      PROVE  Cardinality(S) <= Cardinality(T) + 1
    <2>1. /\ IsFiniteSet(T \cup {p})
          /\ Cardinality(T \cup {p}) = IF p \in T THEN Cardinality(T) ELSE Cardinality(T) + 1
        BY <1>1, FS_AddElement
    <2>2. Cardinality(S) <= Cardinality(T \cup {p}) /\ Cardinality(T \cup {p}) \in Nat
        BY <1>5, <2>1, FS_Subset, FS_CardinalityType
    <2> QED
        BY <2>1, <2>2, <1>2
<1> QED
    BY <1>2, <1>3, <1>4, <1>5

-----------------------------------------------------------------------------
(* The invariant is inductive.                                             *)

LEMMA InitHolds == Init => IInv
<1> SUFFICES ASSUME Init PROVE IInv
    OBVIOUS
<1>1. TypeOK
    BY BootstrapAssumption DEF Init, TypeOK, Kinds
<1>2. Settled
    BY DEF Init, Settled, SettledFor
<1>3. ASSUME NEW n \in Name PROVE Accounted(n)
    <2>1. Adders(n) = {}
        BY DEF Init, Adders, Running
    <2> QED
        BY <2>1, FS_EmptySet, <1>3 DEF Init, Accounted
<1> QED
    BY <1>1, <1>2, <1>3 DEF IInv, AllAccounted

\* What a step of one process does: to its place in main(), to Valkey.
LEMMA TypeStep == IInv /\ [Next]_vars => TypeOK'
<1> SUFFICES ASSUME TypeOK, [Next]_vars PROVE TypeOK'
    BY DEF IInv
<1> USE BootstrapAssumption, KindsCover
<1>1. ASSUME NEW p \in Process, Start(p) PROVE TypeOK'
    BY <1>1 DEF TypeOK, Start, local, valkey
<1>2. ASSUME NEW p \in Process,
             SetupEnv(p) \/ InitDB(p) \/ Verified(p) \/ Bootstrapped(p) \/ Listen(p)
      PROVE  TypeOK'
    BY <1>2 DEF TypeOK, SetupEnv, InitDB, Verified, Bootstrapped, Listen, Step, local, valkey
<1>3. ASSUME NEW p \in Process, InitValkey(p) \/ NextKind(p) PROVE TypeOK'
    BY <1>3 DEF TypeOK, InitValkey, NextKind, StartVerifying, Step, valkey
<1>4. ASSUME NEW p \in Process, Verify(p) PROVE TypeOK'
    BY <1>4 DEF TypeOK, Verify, valkey
<1>5. ASSUME NEW p \in Process, Create(p) \/ CreateReplyLost(p) PROVE TypeOK'
    <2>1. ASSUME NEW n \in missing[p], PutDummy(n)
          PROVE  /\ keys' \in [Name -> Type \cup {"none", "string"}]
                 /\ dummies' \in [Name -> Nat]
        BY <2>1 DEF PutDummy, TypeOK
    <2>2. CASE Create(p)
        BY <2>1, <2>2 DEF TypeOK, Create
    <2>3. CASE CreateReplyLost(p)
        BY <2>1, <2>3 DEF TypeOK, CreateReplyLost, local
    <2> QED
        BY <1>5, <2>2, <2>3
<1>6. ASSUME NEW p \in Process, CreateRefused(p) \/ Stops(p) PROVE TypeOK'
    BY <1>6 DEF TypeOK, CreateRefused, Stops, Ends, valkey
<1>7. ASSUME NEW n \in Shared, OtherService(n) PROVE TypeOK'
    BY <1>7 DEF TypeOK, OtherService, local
<1>8. CASE UNCHANGED vars
    BY <1>8 DEF TypeOK, vars
<1> QED
    BY <1>1, <1>2, <1>3, <1>4, <1>5, <1>6, <1>7, <1>8 DEF Next, Progress, Quiet

\* Nothing a step does to Valkey takes away a structure.
LEMMA KeysStay ==
    ASSUME TypeOK, [Next]_vars, NEW n \in Name, Exists(n)
    PROVE  Exists(n)'
<1>1. ASSUME NEW m \in Name, PutDummy(m) PROVE Exists(n)'
    BY <1>1 DEF PutDummy, Exists, TypeOK
<1>2. ASSUME NEW p \in Process, Create(p) \/ CreateReplyLost(p) PROVE Exists(n)'
    <2>1. missing[p] \subseteq Name
        BY DEF TypeOK
    <2> QED
        BY <1>1, <1>2, <2>1 DEF Create, CreateReplyLost
<1>3. ASSUME NEW m \in Shared, OtherService(m) PROVE Exists(n)'
    <2>1. n # m
        BY <1>3, BootstrapAssumption DEF OtherService, Exists, Type, Name
    <2> QED
        BY <1>3, <2>1 DEF OtherService, Exists, TypeOK
<1>4. ASSUME keys' = keys PROVE Exists(n)'
    BY <1>4 DEF Exists
<1> QED
    BY <1>2, <1>3, <1>4
    DEF Next, Progress, Quiet, Start, SetupEnv, InitDB, Verified, Bootstrapped, Listen,
        InitValkey, NextKind, StartVerifying, Verify, CreateRefused, Stops, Ends, local,
        valkey, vars

LEMMA SettledStep == IInv /\ [Next]_vars => Settled'
<1> SUFFICES ASSUME IInv, [Next]_vars, NEW q \in Process PROVE SettledFor(q)'
    BY DEF Settled
<1>a. TypeOK /\ SettledFor(q)
    BY DEF IInv, Settled
<1>b. \A n \in Name : Exists(n) => Exists(n)'
    BY <1>a, KeysStay
<1>c. \A k \in 1 .. 3 : \A n \in OfKind(k) : n \in Name
    BY KindsCover
<1>d. kind[q] \in 1 .. 3
    BY <1>a, KindsCover DEF TypeOK
\* Valkey moves, or another process does.
<1>1. ASSUME pc'[q] = pc[q], kind'[q] = kind[q], left'[q] = left[q],
             missing'[q] = missing[q]
      PROVE  SettledFor(q)'
    BY <1>1, <1>a, <1>b, <1>c DEF SettledFor, OfKind
\* The process is at its first steps, or has ended.
<1>2. ASSUME pc'[q] \notin {"verify", "create", "listen", "serving"},
             missing'[q] = {}
      PROVE  SettledFor(q)'
    BY <1>2 DEF SettledFor
<1>3. ASSUME NEW p \in Process, p = q, InitValkey(p) \/ NextKind(p)
      PROVE  SettledFor(q)'
    <2>1. CASE InitValkey(p)
        BY <2>1, <1>3, <1>a DEF InitValkey, Step, StartVerifying, SettledFor, TypeOK, OfKind
    <2>2. CASE NextKind(p)
        <3>1. /\ pc[q] = "create" /\ pc'[q] = "verify" /\ kind[q] < 3
              /\ kind'[q] = kind[q] + 1 /\ left'[q] = OfKind(kind[q] + 1)
              /\ missing[q] = {} /\ left[q] = {}
            BY <2>2, <1>3, <1>a, KindsCover
            DEF NextKind, Step, StartVerifying, SettledFor, TypeOK
        <3>2. ASSUME NEW k \in 1 .. 3, NEW n \in OfKind(k), k <= kind'[q]
              PROVE  Exists(n)' \/ (k = kind'[q] /\ n \in left'[q])
            <4>1. CASE k = kind'[q]
                BY <4>1, <3>1
            <4>2. CASE k <= kind[q]
                BY <4>2, <3>1, <1>a, <1>b, <1>c DEF SettledFor
            <4> QED
                BY <3>1, <3>2, <4>1, <4>2, <1>d
        <3> QED
            BY <3>1, <3>2 DEF SettledFor, OfKind
    <2> QED
        BY <1>3, <2>1, <2>2
<1>4. ASSUME NEW p \in Process, p = q, Verify(p) PROVE SettledFor(q)'
    <2>1. PICK n \in left[q] :
            /\ left'[q] = left[q] \ {n}
            /\ missing'[q] = IF Exists(n) THEN missing[q] ELSE missing[q] \cup {n}
        BY <1>4, <1>a DEF Verify, Answers, TypeOK
    <2>2. pc[q] = "verify" /\ pc' = pc /\ kind' = kind /\ keys' = keys
        BY <1>4 DEF Verify, valkey
    <2> QED
        BY <2>1, <2>2, <1>a DEF SettledFor, Exists, OfKind
<1>5. ASSUME NEW p \in Process, p = q, Create(p) PROVE SettledFor(q)'
    <2>1. PICK n \in missing[q] : PutDummy(n) /\ missing'[q] = missing[q] \ {n}
        BY <1>5, <1>a DEF Create, TypeOK
    <2>2. n \in Name /\ Exists(n)'
        BY <2>1, <1>a DEF PutDummy, Exists, TypeOK
    <2>3. pc[q] = "create" /\ pc' = pc /\ kind' = kind /\ left' = left
        BY <1>5 DEF Create
    <2> QED
        BY <2>1, <2>2, <2>3, <1>a, <1>b, <1>c DEF SettledFor, OfKind
<1>6. ASSUME NEW p \in Process, p = q, Verified(p) \/ Bootstrapped(p) \/ Listen(p)
      PROVE  SettledFor(q)'
    <2>1. UNCHANGED <<kind, left, missing, keys>>
        BY <1>6 DEF Verified, Bootstrapped, Listen, local, valkey
    <2>2. CASE Verified(p)
        BY <2>1, <2>2, <1>6, <1>a DEF Verified, Step, SettledFor, TypeOK, Exists, OfKind
    <2>3. CASE Bootstrapped(p) \/ Listen(p)
        BY <2>1, <2>3, <1>6, <1>a, KindsCover
        DEF Bootstrapped, Listen, Step, SettledFor, TypeOK, Exists, OfKind
    <2> QED
        BY <1>6, <2>2, <2>3
<1>7. ASSUME NEW p \in Process, p = q, Start(p) \/ SetupEnv(p) \/ InitDB(p)
      PROVE  SettledFor(q)'
    <2>1. missing'[q] = missing[q] /\ missing[q] = {}
        BY <1>7, <1>a DEF Start, SetupEnv, InitDB, Step, SettledFor, Running, local
    <2> QED
        BY <2>1, <1>2, <1>7, <1>a DEF Start, SetupEnv, InitDB, Step, TypeOK
<1>8. ASSUME NEW p \in Process, p = q, CreateRefused(p) \/ Stops(p)
      PROVE  SettledFor(q)'
    BY <1>8, <1>2, <1>a DEF CreateRefused, Stops, Ends, TypeOK
<1>9. ASSUME NEW p \in Process, p # q, Start(p) \/ Progress(p) \/ Stops(p)
      PROVE  SettledFor(q)'
    BY <1>9, <1>1, <1>a
    DEF Start, Progress, SetupEnv, InitDB, InitValkey, Verify, Verified, Create,
        CreateRefused, NextKind, Bootstrapped, Listen, Stops, Ends, Step, StartVerifying,
        local, TypeOK
<1>10. ASSUME NEW p \in Process, CreateReplyLost(p) PROVE SettledFor(q)'
    BY <1>10, <1>1 DEF CreateReplyLost, local
<1>11. ASSUME NEW n \in Shared, OtherService(n) PROVE SettledFor(q)'
    BY <1>11, <1>1 DEF OtherService, local
<1>12. CASE UNCHANGED vars
    BY <1>12, <1>1 DEF vars
<1> QED
    BY <1>3, <1>4, <1>5, <1>6, <1>7, <1>8, <1>9, <1>10, <1>11, <1>12
    DEF Next, Progress, Quiet

LEMMA AccountedStep == IInv /\ [Next]_vars => AllAccounted'
<1> SUFFICES ASSUME IInv, [Next]_vars, NEW n \in Name PROVE Accounted(n)'
    BY DEF AllAccounted
<1>a. TypeOK /\ Settled /\ Accounted(n)
    BY DEF IInv, AllAccounted
<1>b. dummies[n] \in Nat /\ absent[n] \in Nat /\ lost \in Nat
    BY <1>a, BootstrapAssumption DEF TypeOK
<1>c. Adders(n) \in SUBSET Process /\ Adders(n)' \in SUBSET Process
    BY DEF Adders
<1>d. Cardinality(Adders(n)) \in Nat /\ Cardinality(Adders(n)') \in Nat
    BY <1>c, Counting
<1>e. Exists(n) => Exists(n)'
    BY <1>a, KeysStay
\* Nothing is added, and nobody becomes an adder.
<1>1. ASSUME dummies'[n] = dummies[n], absent'[n] = absent[n], lost' = lost,
             Adders(n)' \subseteq Adders(n)
      PROVE  Accounted(n)'
    <2>1. Cardinality(Adders(n)') <= Cardinality(Adders(n))
        BY <1>1, <1>c, Counting
    <2> QED
        BY <2>1, <1>1, <1>a, <1>b, <1>d DEF Accounted
<1>2. ASSUME NEW p \in Process, Start(p) PROVE Accounted(n)'
    <2>1. dummies' = dummies /\ lost' = lost /\ missing' = missing /\ keys' = keys
        BY <1>2 DEF Start, local, valkey
    <2>2. CASE Exists(n)
        BY <2>1, <2>2, <1>1, <1>2, <1>a DEF Start, Adders, Exists, TypeOK
    <2>3. CASE ~Exists(n)
        <3>1. Adders(n)' \subseteq Adders(n) \cup {p}
            BY <2>1, <2>3, <1>2, <1>a DEF Start, Adders, Exists, Running, TypeOK
        <3>2. Cardinality(Adders(n)') <= Cardinality(Adders(n)) + 1
            BY <3>1, <1>c, Counting
        <3>3. absent'[n] = absent[n] + 1
            BY <2>3, <1>2 DEF Start
        <3> QED
            BY <2>1, <3>2, <3>3, <1>a, <1>b, <1>d DEF Accounted
    <2> QED
        BY <2>2, <2>3
<1>3. ASSUME NEW p \in Process,
             SetupEnv(p) \/ InitDB(p) \/ InitValkey(p) \/ Verify(p) \/ Verified(p)
               \/ NextKind(p) \/ Bootstrapped(p) \/ Listen(p) \/ CreateRefused(p) \/ Stops(p)
      PROVE  Accounted(n)'
    <2>1. dummies' = dummies /\ lost' = lost /\ absent' = absent /\ keys' = keys
        BY <1>3
        DEF SetupEnv, InitDB, InitValkey, Verify, Verified, NextKind, Bootstrapped, Listen,
            CreateRefused, Stops, Ends, StartVerifying, valkey
    <2>2. ASSUME NEW q \in Process, Running(q)' PROVE Running(q)
        BY <2>2, <1>3, <1>a
        DEF SetupEnv, InitDB, InitValkey, Verify, Verified, NextKind, Bootstrapped, Listen,
            CreateRefused, Stops, Ends, Step, Running, TypeOK
    <2>3. ASSUME NEW q \in Process, n \in missing'[q], Exists(n) PROVE n \in missing[q]
        <3>1. CASE Verify(p)
            BY <3>1, <2>3, <1>a DEF Verify, Answers, TypeOK
        <3>2. CASE ~Verify(p)
            BY <3>2, <2>3, <1>3, <1>a
            DEF SetupEnv, InitDB, InitValkey, Verified, NextKind, Bootstrapped, Listen,
                CreateRefused, Stops, Ends, StartVerifying, local, TypeOK
        <3> QED
            BY <3>1, <3>2
    <2>4. Adders(n)' \subseteq Adders(n)
        BY <2>1, <2>2, <2>3 DEF Adders, Exists
    <2> QED
        BY <2>1, <2>4, <1>1
<1>4. ASSUME NEW p \in Process, NEW m \in missing[p], pc[p] = "create", PutDummy(m)
      PROVE  /\ dummies'[n] = IF n = m /\ Structures[n] = "stream" THEN dummies[n] + 1
                              ELSE dummies[n]
             /\ n # m => Exists(n)' = Exists(n)
             /\ Exists(m)'
             /\ m \in Name /\ p \in Adders(m)
    BY <1>4, <1>a DEF PutDummy, Adders, Exists, Running, TypeOK
<1>5. ASSUME NEW q \in Process, n \in missing[q] PROVE Running(q)
    BY <1>5, <1>a DEF Settled, SettledFor, Running
<1>6. ASSUME NEW p \in Process, Create(p) PROVE Accounted(n)'
    <2>1. PICK m \in missing[p] : PutDummy(m) /\ missing' = [missing EXCEPT ![p] = @ \ {m}]
        BY <1>6 DEF Create
    <2>2. pc[p] = "create" /\ pc' = pc /\ absent' = absent /\ lost' = lost
        BY <1>6 DEF Create
    <2>3. CASE n # m
        <3>1. Adders(n)' \subseteq Adders(n)
            BY <2>1, <2>2, <2>3, <1>4, <1>a DEF Adders, Running, TypeOK
        <3> QED
            BY <2>1, <2>2, <2>3, <3>1, <1>1, <1>4
    <2>4. CASE n = m
        <3>1. Adders(n)' \subseteq Adders(n) \ {p} /\ p \in Adders(n)
            BY <2>1, <2>2, <2>4, <1>4, <1>5, <1>a DEF Adders, TypeOK
        <3>2. Cardinality(Adders(n)') + 1 <= Cardinality(Adders(n))
            BY <3>1, <1>c, Counting
        <3>3. dummies'[n] \in {dummies[n], dummies[n] + 1}
            BY <2>1, <2>2, <1>4
        <3> QED
            BY <2>2, <3>2, <3>3, <1>a, <1>b, <1>d DEF Accounted
    <2> QED
        BY <2>3, <2>4
<1>7. ASSUME NEW p \in Process, CreateReplyLost(p) PROVE Accounted(n)'
    <2>1. PICK m \in missing[p] : PutDummy(m)
        BY <1>7 DEF CreateReplyLost
    <2>2. pc[p] = "create" /\ missing' = missing /\ pc' = pc /\ absent' = absent
            /\ lost' = lost + 1
        BY <1>7 DEF CreateReplyLost, local
    <2>3. Adders(n)' \subseteq Adders(n)
        BY <2>1, <2>2, <1>4, <1>5 DEF Adders, Running
    <2>4. Cardinality(Adders(n)') <= Cardinality(Adders(n))
        BY <2>3, <1>c, Counting
    <2>5. dummies'[n] \in {dummies[n], dummies[n] + 1}
        BY <2>1, <2>2, <1>4
    <2> QED
        BY <2>2, <2>4, <2>5, <1>a, <1>b, <1>d DEF Accounted
<1>8. ASSUME NEW m \in Shared, OtherService(m) PROVE Accounted(n)'
    <2>1. Adders(n)' \subseteq Adders(n)
        BY <1>8, <1>5, <1>e DEF OtherService, Adders, Running, local
    <2> QED
        BY <2>1, <1>1, <1>8 DEF OtherService
<1>9. CASE UNCHANGED vars
    BY <1>9, <1>1 DEF vars, Adders, Exists, Running
<1> QED
    BY <1>2, <1>3, <1>6, <1>7, <1>8, <1>9 DEF Next, Progress, Quiet

LEMMA Inductive == Spec => []IInv
<1>1. IInv /\ [Next]_vars => IInv'
    BY TypeStep, SettledStep, AccountedStep DEF IInv
<1> QED
    BY InitHolds, <1>1, PTL DEF Spec

-----------------------------------------------------------------------------
(* The theorems.                                                           *)

\* A server that serves finds every structure its handlers write to, with its
\* type: BootstrapValkey goes on only after each one was seen or created, and
\* no step of anybody changes the type of a key.
THEOREM ServersAreReady == Spec => []ServingMeansReady
<1>1. IInv => ServingMeansReady
    <2> SUFFICES ASSUME IInv, NEW p \in Process, pc[p] \in {"listen", "serving"}
                 PROVE  keys = Structures
        BY DEF ServingMeansReady
    <2>1. ASSUME NEW n \in Name PROVE keys[n] = Structures[n]
        <3>1. PICK k \in 1 .. 3 : n \in OfKind(k)
            BY KindsCover
        <3> QED
            BY <3>1 DEF IInv, Settled, SettledFor, Exists
    <2>2. keys \in [Name -> Type \cup {"none", "string"}] /\ Structures \in [Name -> Type]
        BY BootstrapAssumption DEF IInv, TypeOK
    <2> QED
        BY <2>1, <2>2
<1> QED
    BY Inductive, <1>1, PTL

\* Starting a server again and again, in whatever state the last start left
\* Valkey, adds a dummy entry only for a start that found the stream missing
\* when it began, or for a lost reply.
THEOREM RestartsAddNothing == Spec => []DummiesAreExplained
<1>1. IInv => DummiesAreExplained
    <2> SUFFICES ASSUME IInv, NEW n \in Name PROVE dummies[n] <= absent[n] + lost
        BY DEF DummiesAreExplained
    <2>1. Accounted(n) /\ dummies[n] \in Nat /\ absent[n] \in Nat /\ lost \in Nat
        BY BootstrapAssumption DEF IInv, AllAccounted, TypeOK
    <2>2. Cardinality(Adders(n)) \in Nat
        BY Counting DEF Adders
    <2> QED
        BY <2>1, <2>2 DEF Accounted
<1> QED
    BY Inductive, <1>1, PTL
=============================================================================
