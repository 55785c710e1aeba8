----------------------------- MODULE Bootstrap -----------------------------
(***************************************************************************)
(* main.go and bootstrap/: what a server does before it serves.  It reads  *)
(* its configuration, connects to Postgres and Valkey, and then, for the   *)
(* streams, the hashes and the sorted sets in turn, asks Valkey for the    *)
(* TYPE of each structure and creates the missing ones, one command each.  *)
(* The first error ends the process; nothing it did is undone.             *)
(*                                                                         *)
(* Servers share one Valkey: a server may be restarted after any failure,  *)
(* and a new one may start while another one starts or serves.             *)
(***************************************************************************)
EXTENDS Integers, Sequences, FiniteSets

CONSTANTS
    Process,        \* the places where a server is run
    Structures,     \* the type of every structure, by its name
    Shared,         \* the structures that other services may create first
    Found,          \* what Valkey may contain in the beginning
    MaxStarts,      \* bound: how often a server is started
    MaxLost         \* bound: replies Valkey loses

Name == DOMAIN Structures
Kinds == <<"stream", "hash", "zset">>
Type == {"stream", "hash", "zset"}

ASSUME BootstrapAssumption ==
    /\ IsFiniteSet(Process)
    /\ Structures \in [Name -> Type] /\ Shared \subseteq Name
    /\ Found \subseteq [Name -> Type \cup {"none", "string"}]
    /\ MaxStarts \in Nat /\ MaxLost \in Nat

VARIABLES
    pc,         \* where each process is in main()
    kind,       \* the position in Kinds it is at
    left,       \* the structures of that kind it has not verified yet
    missing,    \* the structures it found missing and has not created yet
    keys,       \* Valkey: the type of each key, "none" if there is no key
    dummies,    \* Valkey: how many dummy entries each stream has got
    absent,     \* history: the starts that began without the structure
    lost,       \* history: the number of replies lost
    starts      \* history: the number of starts

local  == <<kind, left, missing>>
valkey == <<keys, dummies, lost>>
vars   == <<pc, kind, left, missing, keys, dummies, absent, lost, starts>>

OfKind(k) == {n \in Name : Structures[n] = Kinds[k]}

Running(p) == pc[p] \notin {"off", "refused"}
Booting(p) == Running(p) /\ pc[p] # "serving"

Step(p, from, to) ==
    /\ pc[p] = from
    /\ pc' = [pc EXCEPT ![p] = to]

\* main returns; what the process remembered is gone.
Ends(p, label) ==
    /\ pc' = [pc EXCEPT ![p] = label]
    /\ kind' = [kind EXCEPT ![p] = 1]
    /\ left' = [left EXCEPT ![p] = {}]
    /\ missing' = [missing EXCEPT ![p] = {}]
    /\ UNCHANGED <<valkey, absent, starts>>

\* Mutant: EXISTS instead of TYPE.
AnyKey(n) == keys[n] # "none"

\* VerifyStreams, VerifyHSet, VerifySSet: TYPE names the wanted type.  A key of
\* another type is as missing as none.
Exists(n) == keys[n] = Structures[n]

\* Mutant: an error of TYPE counts as a missing structure.
AnswersOrError(n) == {Exists(n), FALSE}

\* An error of TYPE ends the start (Stops), so that there is one answer.
Answers(n) == {Exists(n)}

\* Mutant: HSETNX's "the field was there" is taken for a failure.
AcceptsOnce(n) == keys[n] = "none"

\* XADD, HSETNX and ZADD create the key or add to one of their own type; on a
\* key of another type they fail (WRONGTYPE).
Accepts(n) == keys[n] \in {"none", Structures[n]}
-----------------------------------------------------------------------------
Start(p) ==
    /\ ~Running(p) /\ starts < MaxStarts
    /\ pc' = [pc EXCEPT ![p] = "env"]
    /\ absent' = [n \in Name |-> IF Exists(n) THEN absent[n] ELSE absent[n] + 1]
    /\ starts' = starts + 1
    /\ UNCHANGED <<local, valkey>>

SetupEnv(p) == Step(p, "env", "database") /\ UNCHANGED <<local, valkey, absent, starts>>

InitDB(p) == Step(p, "database", "valkey") /\ UNCHANGED <<local, valkey, absent, starts>>

StartVerifying(p, k) ==
    /\ kind' = [kind EXCEPT ![p] = k]
    /\ left' = [left EXCEPT ![p] = OfKind(k)]
    /\ missing' = [missing EXCEPT ![p] = {}]
    /\ UNCHANGED <<valkey, absent, starts>>

InitValkey(p) == Step(p, "valkey", "verify") /\ StartVerifying(p, 1)

\* One TYPE command.  The code asks in the order of its list, here in any order.
Verify(p) ==
    /\ pc[p] = "verify"
    /\ \E n \in left[p] : \E exists \in Answers(n) :
          /\ left' = [left EXCEPT ![p] = @ \ {n}]
          /\ missing' = [missing EXCEPT ![p] = IF exists THEN @ ELSE @ \cup {n}]
    /\ UNCHANGED <<pc, kind, valkey, absent, starts>>

Verified(p) ==
    /\ left[p] = {}
    /\ Step(p, "verify", "create")
    /\ UNCHANGED <<local, valkey, absent, starts>>

\* A stream gets one more dummy entry; the dummy field of a hash and the dummy
\* member of a sorted set are written once, however often.
PutDummy(n) ==
    /\ Accepts(n)
    /\ keys' = [keys EXCEPT ![n] = Structures[n]]
    /\ dummies' = IF Structures[n] = "stream" THEN [dummies EXCEPT ![n] = @ + 1]
                  ELSE dummies

\* SetupValkeyStreams, SetupValkeyHSet, SetupValkeySSet: the missing structures
\* in the order of a Go map, which is any.  The ZCARD after a ZADD only reads.
Create(p) ==
    /\ pc[p] = "create"
    /\ \E n \in missing[p] :
          /\ PutDummy(n)
          /\ missing' = [missing EXCEPT ![p] = @ \ {n}]
    /\ UNCHANGED <<pc, kind, left, absent, lost, starts>>

\* The reply is lost: the client library tries again, or the start ends.
CreateReplyLost(p) ==
    /\ pc[p] = "create" /\ lost < MaxLost
    /\ \E n \in missing[p] : PutDummy(n)
    /\ lost' = lost + 1
    /\ UNCHANGED <<pc, local, absent, starts>>

CreateRefused(p) ==
    /\ \E n \in missing[p] : ~Accepts(n)
    /\ pc[p] = "create" /\ Ends(p, "refused")

NextKind(p) ==
    /\ missing[p] = {} /\ kind[p] < Len(Kinds)
    /\ Step(p, "create", "verify")
    /\ StartVerifying(p, kind[p] + 1)

Bootstrapped(p) ==
    /\ missing[p] = {} /\ kind[p] = Len(Kinds)
    /\ Step(p, "create", "listen")
    /\ UNCHANGED <<local, valkey, absent, starts>>

\* router.Run.
Listen(p) == Step(p, "listen", "serving") /\ UNCHANGED <<local, valkey, absent, starts>>

\* A call fails or its two seconds are over, the configuration is invalid, the
\* port is taken, or the process is ended from outside: nothing is undone.
Stops(p) ==
    /\ Running(p) /\ Ends(p, "off")

\* DevPool or Gravemind appends to a stream that is not there yet.
OtherService(n) ==
    /\ keys[n] = "none"
    /\ keys' = [keys EXCEPT ![n] = Structures[n]]
    /\ UNCHANGED <<pc, local, dummies, lost, absent, starts>>

\* Nobody starts a server again.
Quiet ==
    /\ \A p \in Process : ~Booting(p)
    /\ UNCHANGED vars

Init ==
    /\ pc = [p \in Process |-> "off"]
    /\ kind = [p \in Process |-> 1]
    /\ left = [p \in Process |-> {}]
    /\ missing = [p \in Process |-> {}]
    /\ keys \in Found
    /\ dummies = [n \in Name |-> 0]
    /\ absent = [n \in Name |-> 0]
    /\ lost = 0
    /\ starts = 0

Progress(p) ==
    \/ SetupEnv(p) \/ InitDB(p) \/ InitValkey(p)
    \/ Verify(p) \/ Verified(p) \/ Create(p) \/ CreateRefused(p)
    \/ NextKind(p) \/ Bootstrapped(p) \/ Listen(p)

Next ==
    \/ \E p \in Process : Start(p) \/ Progress(p) \/ CreateReplyLost(p) \/ Stops(p)
    \/ \E n \in Shared : OtherService(n)
    \/ Quiet

Spec == Init /\ [][Next]_vars

\* The process runs, and Postgres and Valkey answer.
FairSpec == Spec /\ \A p \in Process : WF_vars(Progress(p))
-----------------------------------------------------------------------------
(* Properties.                                                             *)

\* The values of the variables.
TypeOK ==
    /\ pc \in [Process -> {"off", "env", "database", "valkey", "verify",
                           "create", "listen", "serving", "refused"}]
    /\ kind \in [Process -> 1 .. Len(Kinds)]
    /\ left \in [Process -> SUBSET Name]
    /\ missing \in [Process -> SUBSET Name]
    /\ keys \in [Name -> Type \cup {"none", "string"}]
    /\ dummies \in [Name -> Nat]
    /\ absent \in [Name -> Nat]
    /\ lost \in 0 .. MaxLost
    /\ starts \in 0 .. MaxStarts

\* A server that serves finds every structure its handlers write to, with its
\* type, whatever Valkey contained before, however many starts were broken off
\* half-way, and whoever else was creating structures meanwhile.
ServingMeansReady ==
    \A p \in Process : pc[p] \in {"listen", "serving"} => keys = Structures

\* Starting again is harmless: a dummy entry of a stream goes back to a start
\* that began when the stream was not there, or to a reply that was lost.  In
\* particular a restart after a half-way failure adds none to what exists.
DummiesAreExplained ==
    \A n \in Name : dummies[n] <= absent[n] + lost

\* A start that is not stopped ends in a serving server, unless a key of another
\* type is in the way; in particular two servers that create the same structures
\* at the same time do not make each other fail.
StartsServe ==
    \A p \in Process :
        Booting(p) /\ (\A n \in Name : Accepts(n)) ~> pc[p] \in {"serving", "off"}
=============================================================================
