------------------------------ MODULE Redlock ------------------------------
(***************************************************************************)
(* The execution lock of internal/lock/redlock.go: one resource, the Redis *)
(* nodes it is locked on, and the executions of one job in several         *)
(* instances that want it.  A call to a node is one step.  Its answer may  *)
(* be lost with the effect done, not done, or still to come, a node may    *)
(* restart without its keys, an instance may die, and time passes between  *)
(* any two steps.                                                          *)
(*                                                                         *)
(* Time is counted down, not up: a key has the ticks it has left, and a    *)
(* caller the ticks until the validity it computes from its start is over. *)
(* A node's clock may run ahead, so a key lives up to Drift ticks less.    *)
(*                                                                         *)
(* generateToken draws 128 random bits.  A token matters while its caller  *)
(* remembers it, so a key or a call under way belongs to that caller or,   *)
(* once the token is forgotten, to nobody.                                 *)
(***************************************************************************)
EXTENDS Integers, FiniteSets

CONSTANTS
  Callers,      \* executions of one job, in different instances
  N,            \* number of Redis clients; nodes are 1..N
  CfgQuorum,    \* Config.Quorum
  TTL,          \* Config.TTL, in ticks
  Drift,        \* TTL * DriftFactor + 2ms, in ticks
  MaxMishaps,   \* bound: node restarts, and calls that outlive their caller's wait
  SlowNodes,    \* bound: nodes that such calls are made to
  Free,         \* no key
  Orphan        \* owner of a key whose token nobody remembers

ASSUME RedlockAssumption ==
  /\ N \in Nat \ {0} /\ CfgQuorum \in Int /\ TTL \in Nat /\ Drift \in 0..(TTL - 1)
  /\ MaxMishaps \in Nat
  /\ Free \notin Callers /\ Orphan \notin Callers /\ Free # Orphan

\* Mutant: half of the nodes.
QuorumHalf == IF CfgQuorum <= 0 THEN N \div 2 ELSE CfgQuorum

\* NewManager: a quorum that is not configured is a majority.
Quorum == IF CfgQuorum <= 0 THEN (N \div 2) + 1 ELSE CfgQuorum

Nodes == 1..N

VARIABLES
  owner,     \* of each node, whose token the key holds
  ttl,       \* of each node, ticks until its key expires
  pc,        \* of each caller: "idle", "set", "undo", "held" or "free"
  at,        \* of each caller, the node its loop is at
  won,       \* of each caller, nodes counted in acquired
  left,      \* of each caller, ticks of validity left, counted from start
  gone,      \* history: of each caller, nodes of won that restarted since, or
             \* that an undo of its own reached late
  mishaps,   \* history: restarts and overdue calls so far
  late       \* calls that timed out and have not reached their node yet

redVars == <<owner, ttl, pc, at, won, left, gone, mishaps, late>>

LateCall == [by : Callers \cup {Orphan}, op : {"set", "del"}, node : Nodes]

node == <<owner, ttl>>

RedTypeOK ==
  /\ owner \in [Nodes -> Callers \cup {Free, Orphan}]
  /\ ttl \in [Nodes -> 0..TTL]
  /\ pc \in [Callers -> {"idle", "set", "undo", "held", "free"}]
  /\ at \in [Callers -> 1..(N + 1)]
  /\ won \in [Callers -> SUBSET Nodes]
  /\ left \in [Callers -> 0..TTL]
  /\ gone \in [Callers -> SUBSET Nodes]
  /\ mishaps \in 0..MaxMishaps
  /\ late \in SUBSET LateCall

RedInit ==
  /\ owner = [n \in Nodes |-> Free]
  /\ ttl = [n \in Nodes |-> 0]
  /\ pc = [c \in Callers |-> "idle"]
  /\ at = [c \in Callers |-> 1]
  /\ won = [c \in Callers |-> {}]
  /\ left = [c \in Callers |-> 0]
  /\ gone = [c \in Callers |-> {}]
  /\ mishaps = 0
  /\ late = {}

-----------------------------------------------------------------------------
\* Mutant: the drift is not taken off.
ValidityFull == TTL

\* validity at the start of an attempt: TTL - elapsed - drift.
Validity == TTL - Drift

\* The loop of caller c goes to its first node, with nothing counted yet and
\* v ticks of validity.
Loop(c, step, v) ==
  /\ pc' = [pc EXCEPT ![c] = step]
  /\ at' = [at EXCEPT ![c] = 1]
  /\ won' = [won EXCEPT ![c] = {}]
  /\ gone' = [gone EXCEPT ![c] = {}]
  /\ left' = [left EXCEPT ![c] = v]

\* The caller's token is forgotten.
Return(c) ==
  /\ Loop(c, "idle", 0)
  /\ owner' = [n \in Nodes |-> IF owner[n] = c THEN Orphan ELSE owner[n]]
  /\ late' = {IF m.by = c THEN [m EXCEPT !.by = Orphan] ELSE m : m \in late}
  /\ UNCHANGED <<ttl, mishaps>>

\* The node has a key, for TTL by its own clock.
Put(c, n) ==
  /\ owner' = [owner EXCEPT ![n] = c]
  /\ \E d \in 0..Drift : ttl' = [ttl EXCEPT ![n] = TTL - d]

Delete(n) ==
  /\ owner' = [owner EXCEPT ![n] = Free]
  /\ ttl' = [ttl EXCEPT ![n] = 0]

\* The callers that had counted the node have lost their key on it.
Loses(n) == gone' = [c \in Callers |-> gone[c] \cup (won[c] \cap {n})]

Advance(c) == at' = [at EXCEPT ![c] = @ + 1]

Mishap ==
  /\ mishaps < MaxMishaps
  /\ mishaps' = mishaps + 1

\* The caller stops waiting for a call that may reach its node later.
TimesOut(c, op) ==
  /\ at[c] \in SlowNodes
  /\ Mishap
  /\ late' = late \cup {[by |-> c, op |-> op, node |-> at[c]]}
  /\ UNCHANGED node

-----------------------------------------------------------------------------
RedAcquire(c) ==
  /\ pc[c] = "idle"
  /\ Loop(c, "set", Validity)
  /\ UNCHANGED <<node, mishaps, late>>

\* SetNX is answered.
SetNX(c) ==
  LET n == at[c] IN
  /\ pc[c] = "set" /\ n <= N
  /\ \/ /\ owner[n] = Free
        /\ Put(c, n)
        /\ won' = [won EXCEPT ![c] = @ \cup {n}]
     \/ /\ owner[n] # Free
        /\ UNCHANGED <<node, won>>
  /\ Advance(c)
  /\ UNCHANGED <<pc, left, gone, mishaps, late>>

\* SetNX fails, or its answer is lost: the node is not counted.
SetNXFails(c) ==
  LET n == at[c] IN
  /\ pc[c] = "set" /\ n <= N
  /\ \/ UNCHANGED <<node, mishaps, late>>
     \/ owner[n] = Free /\ Put(c, n) /\ UNCHANGED <<mishaps, late>>
     \/ TimesOut(c, "set")
  /\ Advance(c)
  /\ UNCHANGED <<pc, won, left, gone>>

\* Acquire's verdict when all nodes were asked; Expiry, which nothing reads, is
\* when the ticks left are over.
Acquired(c) == Cardinality(won[c]) >= Quorum /\ left[c] > 0

Decide(c) ==
  /\ pc[c] = "set" /\ at[c] = N + 1
  /\ IF Acquired(c)
     THEN pc' = [pc EXCEPT ![c] = "held"] /\ UNCHANGED <<at, won, left, gone>>
     ELSE Loop(c, "undo", 0)
  /\ UNCHANGED <<node, mishaps, late>>

\* releaseScript deletes the key only when it holds the caller's token.
Matches(c, n) == owner[n] = c

\* releaseSingle in a partial win, or Release of a held lock, at one node.
\* Its answer does not matter, and it may not reach the node, or not yet.
RedRelease(c) ==
  LET n == at[c] IN
  /\ pc[c] \in {"undo", "free"} /\ n <= N
  /\ \/ Matches(c, n) /\ Delete(n) /\ UNCHANGED <<mishaps, late>>
     \/ UNCHANGED <<node, mishaps, late>>
     \/ TimesOut(c, "del")
  /\ Advance(c)
  /\ UNCHANGED <<pc, won, left, gone>>

\* Another attempt, after RetryDelay and with the same token.  There are at
\* most RetryCount; no property counts them, so one more is always allowed.
Retry(c) ==
  /\ pc[c] = "undo" /\ at[c] = N + 1
  /\ Loop(c, "set", Validity)
  /\ UNCHANGED <<node, mishaps, late>>

\* Acquire returns an error: attempts are used up, or the context is done.
GiveUp(c) ==
  /\ pc[c] = "undo" /\ at[c] = N + 1
  /\ Return(c)

\* The handler returns and the deferred Release begins.  Nothing renews the
\* key meanwhile, and nothing looks at Expiry.
Finish(c) ==
  /\ pc[c] = "held"
  /\ Loop(c, "free", 0)
  /\ UNCHANGED <<node, mishaps, late>>

Released(c) ==
  /\ pc[c] = "free" /\ at[c] = N + 1
  /\ Return(c)

\* The instance dies; its keys stay.
Crash(c) ==
  /\ pc[c] # "idle"
  /\ Return(c)

-----------------------------------------------------------------------------
Less(x) == IF x > 0 THEN x - 1 ELSE 0

\* A tick of the clock; keys that run out are gone.
Tick ==
  /\ ttl' = [n \in Nodes |-> Less(ttl[n])]
  /\ owner' = [n \in Nodes |-> IF ttl[n] > 1 THEN owner[n] ELSE Free]
  /\ left' = [c \in Callers |-> Less(left[c])]
  /\ UNCHANGED <<pc, at, won, gone, mishaps, late>>

\* A node restarts without its keys.
Restart(n) ==
  /\ Mishap
  /\ owner[n] # Free
  /\ Delete(n)
  /\ Loses(n)
  /\ UNCHANGED <<pc, at, won, left, late>>

\* A call whose caller waits no more reaches its node or is lost.  A retry has
\* the token of the attempt before it, so the script of an undo that is late
\* finds the key of the retry and deletes it.
Arrives(m) ==
  LET n == m.node IN
  /\ m \in late
  /\ late' = late \ {m}
  /\ \/ UNCHANGED <<node, gone>>
     \/ m.op = "set" /\ owner[n] = Free /\ Put(m.by, n) /\ UNCHANGED gone
     \/ m.op = "del" /\ Matches(m.by, n) /\ Delete(n) /\ Loses(n)
  /\ UNCHANGED <<pc, at, won, left, mishaps>>

RedNext ==
  \/ \E c \in Callers :
       \/ RedAcquire(c) \/ SetNX(c) \/ SetNXFails(c) \/ Decide(c)
       \/ RedRelease(c) \/ Retry(c) \/ GiveUp(c)
       \/ Finish(c) \/ Released(c) \/ Crash(c)
  \/ Tick
  \/ \E n \in Nodes : Restart(n)
  \/ \E m \in late : Arrives(m)

RedSpec == RedInit /\ [][RedNext]_redVars

-----------------------------------------------------------------------------
\* The caller holds the lock and its Expiry has not come.
Valid(c) == pc[c] = "held" /\ left[c] > 0

\* The nodes the caller counted that have not restarted since, nor been reached
\* by a late undo.
Kept(c) == won[c] \ gone[c]

\* Expiry is honest: until it comes, every node Acquire counted still has the
\* caller's key, whatever answers were lost, clocks ran ahead or other callers
\* undid, unless the node has restarted and forgotten it, or an undo of an
\* earlier attempt with the same token came late.
ExpiryHonest ==
  \A c \in Callers : Valid(c) => \A n \in Kept(c) : owner[n] = c

\* Two callers do not hold the lock at a time, before the Expiry of either and
\* as long as the nodes that kept each one's key are still a quorum.
RedlockExcludes ==
  \A c, d \in Callers :
    /\ Valid(c) /\ Cardinality(Kept(c)) >= Quorum
    /\ Valid(d) /\ Cardinality(Kept(d)) >= Quorum
    => c = d

\* docs/FEATURES.md on a node that crashes while it has the lock: others "still
\* won't reach quorum because your other nodes still hold it".
CrashedNodeExcludes == \A c, d \in Callers : Valid(c) /\ Valid(d) => c = d

\* cmd/server/main.go: the lock "prevents the same job from executing twice
\* across multiple instances", however long the execution takes.
HoldersExclude ==
  \A c, d \in Callers : pc[c] = "held" /\ pc[d] = "held" => c = d

\* A caller that releases, undoes a partial win or dies does not remove the key
\* of another: keys go by their own caller's release, also one that comes late,
\* by time or by a restart.
ReleaseSparesOthers ==
  [][\A n \in Nodes : owner[n] # Free /\ owner'[n] = Free =>
       \/ \E c \in Callers : owner[n] = c /\ at'[c] # at[c]
       \/ [by |-> owner[n], op |-> "del", node |-> n] \in late
       \/ ttl[n] <= 1
       \/ mishaps' # mishaps]_redVars
=============================================================================
