--------------------------- MODULE SourcePoolProofs ---------------------------
(***************************************************************************)
(* What SourcePool promises, for any number of threads, any pool limit and *)
(* any supply of connections.                                              *)
(*                                                                         *)
(* The inductive invariant IInv adds to the checked invariants only where  *)
(* a thread is when it holds a connection; without it a thread that is     *)
(* about to connect could already own one, which would be lost.            *)
(***************************************************************************)
EXTENDS SourcePool, TLAPS, FiniteSetTheorems, SequenceTheorems

HoldsWhere ==
  \A t \in Threads : conn[t] # NoConn <=> pc[t] \in {"ping", "query", "health", "give_back"}

IInv ==
  /\ TypeOK
  /\ HoldsWhere
  /\ OneOwner
  /\ NoLeakedSocket
  /\ ConnectionsBounded

(* sourcedb.py:64.  What list.pop() returns and leaves. *)
LEMMA Pop ==
  ASSUME NEW S, NEW s \in Seq(S), s # <<>>
  PROVE  /\ Len(s) \in Nat /\ Len(s) >= 1
         /\ Last(s) = s[Len(s)] /\ Last(s) \in S
         /\ Front(s) \in Seq(S) /\ Len(Front(s)) = Len(s) - 1
         /\ \A i \in 1..(Len(s) - 1) : Front(s)[i] = s[i]
<1>1. Len(s) \in Nat /\ Len(s) >= 1
  BY EmptySeq, LenProperties
<1>2. \A i \in 1..Len(s) : s[i] \in S
  BY ElementOfSeq
<1>3. \A i \in 1..(Len(s) - 1) : s[i] \in S
  BY <1>1, <1>2
<1> DEFINE n == Len(s) - 1
<1>n. n = Len(s) - 1
  OBVIOUS
<1>4. n \in Int /\ n >= 0 /\ 1 \in Int /\ \A i \in 1..n : s[i] \in S
  BY <1>1, <1>3
<1> HIDE DEF n
<1>5. /\ SubSeq(s, 1, n) \in Seq(S)
      /\ Len(SubSeq(s, 1, n)) = IF 1 <= n THEN n - 1 + 1 ELSE 0
      /\ \A i \in 1..(n - 1 + 1) : SubSeq(s, 1, n)[i] = s[1 + i - 1]
  BY <1>4, SubSeqProperties
<1>6. Last(s) = s[Len(s)] /\ Last(s) \in S
  BY <1>1, <1>2 DEF Last
<1>7. Front(s) = SubSeq(s, 1, n)
  BY DEF Front, n
<1>8. Len(SubSeq(s, 1, n)) = n
  BY <1>4, <1>5
<1>9. Front(s) \in Seq(S) /\ Len(Front(s)) = Len(s) - 1
  BY <1>n, <1>5, <1>7, <1>8
<1>10. ASSUME NEW i \in 1..(Len(s) - 1) PROVE Front(s)[i] = s[i]
  <2>1. i \in 1..(n - 1 + 1) /\ 1 + i - 1 = i
    BY <1>1, <1>n
  <2>2. QED
    BY <2>1, <1>5, <1>7
<1>11. QED
  BY <1>1, <1>6, <1>9, <1>10

LEMMA TypeOKInit == Init => TypeOK
BY NoConnIsNoConn, EmptySeq DEF Init, TypeOK, Location

(* A step keeps the types, given where connections are held. *)
LEMMA TypeOKStep ==
  ASSUME TypeOK, HoldsWhere, [Next]_vars
  PROVE  TypeOK'
<1> USE DEF TypeOK, Location, Purpose
<1>h. \A t \in Threads : pc[t] \in {"ping", "query", "health", "give_back"} => conn[t] \in Conns
  BY DEF HoldsWhere
<1>1. ASSUME NEW t \in Threads, PopPooled(t) PROVE TypeOK'
  BY <1>1, Pop DEF PopPooled
<1>2. ASSUME NEW t \in Threads, PoolEmpty(t) PROVE TypeOK'
  BY <1>2 DEF PoolEmpty
<1>3. ASSUME NEW t \in Threads, Connect(t) PROVE TypeOK'
  BY <1>3 DEF Connect
<1>4. ASSUME NEW t \in Threads, Revive(t) PROVE TypeOK'
  BY <1>4 DEF Revive
<1>5. ASSUME NEW t \in Threads, CannotConnect(t) PROVE TypeOK'
  BY <1>5 DEF CannotConnect
<1>6. ASSUME NEW t \in Threads, CannotRevive(t) PROVE TypeOK'
  BY <1>6 DEF CannotRevive
<1>7. ASSUME NEW t \in Threads, Answered(t) PROVE TypeOK'
  BY <1>7 DEF Answered
<1>8. ASSUME NEW t \in Threads, QueryFailed(t) PROVE TypeOK'
  BY <1>8 DEF QueryFailed
<1>9. ASSUME NEW t \in Threads, HealthChecked(t) PROVE TypeOK'
  BY <1>9 DEF HealthChecked
<1>10. ASSUME NEW t \in Threads, GiveBack(t) PROVE TypeOK'
  <2>1. conn[t] \in Conns
    BY <1>h, <1>10 DEF GiveBack
  <2>2. pool' \in Seq(Conns)
    BY <1>10, <2>1, AppendProperties DEF GiveBack
  <2>3. QED
    BY <1>10, <2>1, <2>2 DEF GiveBack
<1>11. CASE ResetPool
  BY <1>11, EmptySeq DEF ResetPool
<1>12. CASE WarehouseUpDown
  BY <1>12 DEF WarehouseUpDown
<1>13. CASE DropConnection
  BY <1>13 DEF DropConnection
<1>14. CASE UNCHANGED vars
  BY <1>14 DEF vars
<1>15. QED
  BY <1>1, <1>2, <1>3, <1>4, <1>5, <1>6, <1>7, <1>8, <1>9, <1>10, <1>11, <1>12,
     <1>13, <1>14 DEF Next, Step

LEMMA HoldsWhereStep ==
  ASSUME TypeOK, HoldsWhere, [Next]_vars
  PROVE  HoldsWhere'
<1> USE NoConnIsNoConn DEF TypeOK, HoldsWhere, Location, Purpose
<1>1. ASSUME NEW t \in Threads, PopPooled(t) PROVE HoldsWhere'
  <2>1. Last(pool) \in Conns
    BY <1>1, Pop DEF PopPooled
  <2>2. QED
    BY <1>1, <2>1 DEF PopPooled
<1>2. ASSUME NEW t \in Threads, PoolEmpty(t) PROVE HoldsWhere'
  BY <1>2 DEF PoolEmpty
<1>3. ASSUME NEW t \in Threads, Connect(t) PROVE HoldsWhere'
  BY <1>3 DEF Connect
<1>4. ASSUME NEW t \in Threads, Revive(t) PROVE HoldsWhere'
  BY <1>4 DEF Revive
<1>5. ASSUME NEW t \in Threads, CannotConnect(t) PROVE HoldsWhere'
  BY <1>5 DEF CannotConnect
<1>6. ASSUME NEW t \in Threads, CannotRevive(t) PROVE HoldsWhere'
  BY <1>6 DEF CannotRevive
<1>7. ASSUME NEW t \in Threads, Answered(t) PROVE HoldsWhere'
  BY <1>7 DEF Answered
<1>8. ASSUME NEW t \in Threads, QueryFailed(t) PROVE HoldsWhere'
  BY <1>8 DEF QueryFailed
<1>9. ASSUME NEW t \in Threads, HealthChecked(t) PROVE HoldsWhere'
  BY <1>9 DEF HealthChecked
<1>10. ASSUME NEW t \in Threads, GiveBack(t) PROVE HoldsWhere'
  BY <1>10 DEF GiveBack
<1>11. CASE ResetPool \/ WarehouseUpDown \/ DropConnection \/ UNCHANGED vars
  BY <1>11 DEF ResetPool, WarehouseUpDown, DropConnection, vars
<1>12. QED
  BY <1>1, <1>2, <1>3, <1>4, <1>5, <1>6, <1>7, <1>8, <1>9, <1>10, <1>11 DEF Next, Step

(* Membership in the pool by index, before and after a step. *)
LEMMA InPool ==
  ASSUME NEW S, NEW s \in Seq(S), NEW c
  PROVE  c \in ToSet(s) <=> \E i \in 1..Len(s) : s[i] = c
BY LenProperties DEF ToSet

LEMMA OneOwnerStep ==
  ASSUME TypeOK, TypeOK', HoldsWhere, OneOwner, [Next]_vars
  PROVE  OneOwner'
<1>p. /\ pool \in Seq(Conns) /\ pool' \in Seq(Conns)
      /\ Len(pool) \in Nat
      /\ \A i \in 1..Len(pool) : pool[i] \in Conns
      /\ \A c : c \in Pooled <=> \E i \in 1..Len(pool) : pool[i] = c
      /\ \A c : c \in Pooled' <=> \E i \in 1..Len(pool') : pool'[i] = c
  BY InPool, ElementOfSeq, LenProperties DEF TypeOK, Pooled
<1>c. conn \in [Threads -> Conns \cup {NoConn}] /\ NoConn \notin Pooled
  BY <1>p, NoConnIsNoConn DEF TypeOK
<1>1. ASSUME NEW t \in Threads, PopPooled(t) PROVE OneOwner'
  <2>1. /\ Len(pool) >= 1
        /\ conn' = [conn EXCEPT ![t] = pool[Len(pool)]]
        /\ Len(pool') = Len(pool) - 1
        /\ \A i \in 1..Len(pool') : pool'[i] = pool[i]
    <3>1. pool # <<>> /\ pool' = Front(pool) /\ conn' = [conn EXCEPT ![t] = Last(pool)]
      BY <1>1 DEF PopPooled
    <3>2. /\ Len(pool) >= 1
          /\ Last(pool) = pool[Len(pool)]
          /\ Len(pool') = Len(pool) - 1
          /\ \A i \in 1..(Len(pool) - 1) : pool'[i] = pool[i]
      BY <3>1, <1>p, Pop
    <3>3. QED
      BY <3>1, <3>2
  <2>2. \A i, j \in 1..Len(pool') : pool'[i] = pool'[j] => i = j
    BY <2>1, <1>p DEF OneOwner
  <2>3. pool[Len(pool)] \in Pooled /\ pool[Len(pool)] \notin Pooled'
    <3>1. Len(pool) \in 1..Len(pool)
      BY <2>1, <1>p
    <3>2. \A i \in 1..Len(pool') : i \in 1..Len(pool) /\ i # Len(pool)
      BY <2>1, <1>p
    <3>3. \A i \in 1..Len(pool') : pool'[i] # pool[Len(pool)]
      BY <3>1, <3>2, <2>1 DEF OneOwner
    <3>4. QED
      BY <3>1, <3>3, <1>p
  <2>4. Pooled' \subseteq Pooled
    BY <2>1, <1>p
  <2>5. QED
    BY <2>1, <2>2, <2>3, <2>4, <1>c DEF OneOwner
<1>2. ASSUME NEW t \in Threads, Connect(t) PROVE OneOwner'
  <2>1. PICK c \in Conns \ Referenced : conn' = [conn EXCEPT ![t] = c]
    BY <1>2 DEF Connect
  <2>2. c \notin Pooled /\ \A s \in Threads : conn[s] # c
    BY NoConnIsNoConn DEF Referenced, Held
  <2>3. pool' = pool /\ Pooled' = Pooled
    BY <1>2 DEF Connect, Pooled
  <2>4. QED
    BY <2>1, <2>2, <2>3, <1>c DEF OneOwner
<1>3. ASSUME NEW t \in Threads, GiveBack(t) PROVE OneOwner'
  <2>1. conn[t] \in Conns /\ conn[t] # NoConn
    BY <1>3, <1>c DEF GiveBack, HoldsWhere
  <2>2. conn' = [conn EXCEPT ![t] = NoConn]
    BY <1>3 DEF GiveBack
  <2>3. CASE pool' = Append(pool, conn[t])
    <3>1. /\ Len(pool') = Len(pool) + 1
          /\ \A i \in 1..Len(pool) : pool'[i] = pool[i]
          /\ pool'[Len(pool) + 1] = conn[t]
      BY <2>1, <2>3, <1>p, AppendProperties
    <3>2. \A i, j \in 1..Len(pool') : pool'[i] = pool'[j] => i = j
      BY <3>1, <1>p DEF OneOwner
    <3>3. Pooled' = Pooled \cup {conn[t]}
      BY <3>1, <1>p
    <3>4. \A s \in Threads : conn'[s] \notin Pooled'
      BY <3>3, <2>1, <2>2, <1>c DEF OneOwner
    <3>5. QED
      BY <3>2, <3>4, <2>2, <1>c DEF OneOwner
  <2>4. CASE pool' = pool
    <3>1. Pooled' = Pooled
      BY <2>4 DEF Pooled
    <3>2. QED
      BY <3>1, <2>2, <2>4, <1>c DEF OneOwner
  <2>5. QED
    BY <1>3, <2>3, <2>4 DEF GiveBack
<1>4. ASSUME NEW t \in Threads, CannotRevive(t) PROVE OneOwner'
  <2>1. conn' = [conn EXCEPT ![t] = NoConn] /\ pool' = pool /\ Pooled' = Pooled
    BY <1>4 DEF CannotRevive, Pooled
  <2>2. QED
    BY <2>1, <1>c DEF OneOwner
<1>5. CASE ResetPool
  <2>1. Len(pool') = 0 /\ conn' = conn /\ Pooled' = {}
    BY <1>5, <1>p, EmptySeq DEF ResetPool
  <2>2. QED
    BY <2>1, <1>c DEF OneOwner
<1>6. CASE UNCHANGED <<pool, conn>>
  BY <1>6 DEF OneOwner, Pooled
<1>7. QED
  BY <1>1, <1>2, <1>3, <1>4, <1>5, <1>6
  DEF Next, Step, PoolEmpty, Revive, CannotConnect, Answered, QueryFailed,
      HealthChecked, WarehouseUpDown, DropConnection, vars

LEMMA NoLeakStep ==
  ASSUME TypeOK, TypeOK', HoldsWhere, NoLeakedSocket, [Next]_vars
  PROVE  NoLeakedSocket'
<1>p. /\ pool \in Seq(Conns) /\ pool' \in Seq(Conns)
      /\ Len(pool) \in Nat
      /\ \A c : c \in Pooled <=> \E i \in 1..Len(pool) : pool[i] = c
      /\ \A c : c \in Pooled' <=> \E i \in 1..Len(pool') : pool'[i] = c
  BY InPool, LenProperties DEF TypeOK, Pooled
<1>t. /\ conn \in [Threads -> Conns \cup {NoConn}]
      /\ socket \in [Conns -> {"closed", "open", "dropped"}]
      /\ \A c \in Conns : c \in Referenced <=> c \in Pooled \/ \E s \in Threads : conn[s] = c
      /\ \A c \in Conns : c \in Referenced' <=> c \in Pooled' \/ \E s \in Threads : conn'[s] = c
  BY NoConnIsNoConn DEF TypeOK, Referenced, Held
<1>1. ASSUME NEW t \in Threads, PopPooled(t) PROVE NoLeakedSocket'
  <2>1. /\ pool # <<>> /\ pool' = Front(pool)
        /\ conn' = [conn EXCEPT ![t] = Last(pool)] /\ socket' = socket
        /\ conn[t] = NoConn
    BY <1>1, NoConnIsNoConn DEF PopPooled, HoldsWhere
  <2>2. /\ Len(pool) >= 1 /\ Last(pool) = pool[Len(pool)]
        /\ Len(pool') = Len(pool) - 1
        /\ \A i \in 1..(Len(pool) - 1) : pool'[i] = pool[i]
    BY <2>1, <1>p, Pop
  <2>3. ASSUME NEW c \in Pooled PROVE c \in Pooled' \/ conn'[t] = c
    BY <2>1, <2>2, <1>p, <1>t
  <2>4. \A c \in Conns : c \in Referenced => c \in Referenced'
    BY <2>1, <2>3, <1>t, NoConnIsNoConn
  <2>5. QED
    BY <2>1, <2>4 DEF NoLeakedSocket
<1>2. ASSUME NEW t \in Threads, Connect(t) PROVE NoLeakedSocket'
  <2>1. PICK c \in Conns : /\ conn' = [conn EXCEPT ![t] = c]
                           /\ socket' = [socket EXCEPT ![c] = "open"]
    BY <1>2 DEF Connect
  <2>2. Pooled' = Pooled /\ conn[t] = NoConn
    BY <1>2 DEF Connect, Pooled, HoldsWhere
  <2>3. \A d \in Conns : d \in Referenced' <=> d \in Referenced \/ d = c
    BY <2>1, <2>2, <1>t, NoConnIsNoConn
  <2>4. QED
    BY <2>1, <2>3, <1>t DEF NoLeakedSocket
<1>3. ASSUME NEW t \in Threads, Revive(t) \/ QueryFailed(t) \/ HealthChecked(t)
      PROVE  NoLeakedSocket'
  <2>1. PICK x : socket' = [socket EXCEPT ![conn[t]] = x]
    BY <1>3 DEF Revive, QueryFailed, HealthChecked
  <2>2. Pooled' = Pooled /\ conn' = conn
    BY <1>3 DEF Revive, QueryFailed, HealthChecked, Pooled
  <2>3. QED
    BY <2>1, <2>2, <1>t DEF NoLeakedSocket
<1>4. ASSUME NEW t \in Threads, CannotRevive(t) PROVE NoLeakedSocket'
  <2>1. /\ Pooled' = Pooled /\ conn' = [conn EXCEPT ![t] = NoConn]
        /\ socket' = [socket EXCEPT ![conn[t]] = "closed"]
    BY <1>4 DEF CannotRevive, Pooled
  <2>2. \A c \in Conns : c \in Referenced => c \in Referenced' \/ c = conn[t]
    BY <2>1, <1>t
  <2>3. QED
    BY <2>1, <2>2, <1>t DEF NoLeakedSocket
<1>5. ASSUME NEW t \in Threads, GiveBack(t) PROVE NoLeakedSocket'
  <2>1. conn[t] \in Conns /\ conn' = [conn EXCEPT ![t] = NoConn]
    BY <1>5, <1>t DEF GiveBack, HoldsWhere
  <2>2. CASE pool' = Append(pool, conn[t]) /\ socket' = socket
    <3>1. Pooled' = Pooled \cup {conn[t]}
      <4>1. /\ Len(pool') = Len(pool) + 1
            /\ \A i \in 1..Len(pool) : pool'[i] = pool[i]
            /\ pool'[Len(pool) + 1] = conn[t]
        BY <2>1, <2>2, <1>p, AppendProperties
      <4>2. QED
        BY <4>1, <1>p
    <3>2. \A c \in Conns : c \in Referenced => c \in Referenced'
      BY <2>1, <3>1, <1>t
    <3>3. QED
      BY <2>2, <3>2 DEF NoLeakedSocket
  <2>3. CASE pool' = pool /\ socket' = [socket EXCEPT ![conn[t]] = "closed"]
    <3>1. Pooled' = Pooled
      BY <2>3 DEF Pooled
    <3>2. \A c \in Conns : c \in Referenced => c \in Referenced' \/ c = conn[t]
      BY <2>1, <3>1, <1>t
    <3>3. QED
      BY <2>1, <2>3, <3>2, <1>t DEF NoLeakedSocket
  <2>4. QED
    BY <1>5, <2>2, <2>3 DEF GiveBack
<1>6. CASE ResetPool
  <2>1. /\ conn' = conn
        /\ socket' = [c \in Conns |-> IF c \in Pooled THEN "closed" ELSE socket[c]]
    BY <1>6 DEF ResetPool
  <2>2. QED
    BY <2>1, <1>t DEF NoLeakedSocket
<1>7. CASE DropConnection
  <2>1. PICK c \in Conns : socket[c] = "open" /\ socket' = [socket EXCEPT ![c] = "dropped"]
    BY <1>7 DEF DropConnection
  <2>2. Pooled' = Pooled /\ conn' = conn
    BY <1>7 DEF DropConnection, Pooled
  <2>3. QED
    BY <2>1, <2>2, <1>t DEF NoLeakedSocket
<1>8. CASE UNCHANGED <<pool, conn, socket>>
  BY <1>8 DEF NoLeakedSocket, Referenced, Held, Pooled
<1>9. QED
  BY <1>1, <1>2, <1>3, <1>4, <1>5, <1>6, <1>7, <1>8
  DEF Next, Step, PoolEmpty, CannotConnect, Answered, WarehouseUpDown, vars

LEMMA BoundedStep ==
  ASSUME TypeOK, TypeOK', HoldsWhere, ConnectionsBounded, [Next]_vars
  PROVE  ConnectionsBounded'
<1>p. /\ pool \in Seq(Conns) /\ Len(pool) \in Nat /\ Len(pool') \in Nat
      /\ pc \in [Threads -> Location]
  BY LenProperties DEF TypeOK
<1>f. /\ IsFiniteSet(Borrowers) /\ Cardinality(Borrowers) \in Nat
      /\ IsFiniteSet(Borrowers') /\ Cardinality(Borrowers') \in Nat
      /\ Cardinality(Threads) \in Nat
      /\ Cardinality(Borrowers') <= Cardinality(Threads)
  <2>1. Borrowers \subseteq Threads /\ Borrowers' \subseteq Threads
    BY DEF Borrowers
  <2>2. QED
    BY <2>1, ThreadsFinite, FS_Subset, FS_CardinalityType
<1> USE MaxPooledNat
<1>1. ASSUME NEW t \in Threads, PopPooled(t) PROVE ConnectionsBounded'
  <2>1. Len(pool) >= 1 /\ Len(pool') = Len(pool) - 1
    BY <1>1, <1>p, Pop DEF PopPooled
  <2>2. t \notin Borrowers /\ Borrowers' = Borrowers \cup {t}
    BY <1>1, <1>p DEF PopPooled, Borrowers
  <2>3. Cardinality(Borrowers') = Cardinality(Borrowers) + 1
    BY <2>2, <1>f, FS_AddElement
  <2>4. QED
    BY <2>1, <2>3, <1>p, <1>f DEF ConnectionsBounded
<1>2. ASSUME NEW t \in Threads, PoolEmpty(t) PROVE ConnectionsBounded'
  <2>1. Len(pool') = 0
    BY <1>2, EmptySeq DEF PoolEmpty
  <2>2. QED
    BY <2>1, <1>f DEF ConnectionsBounded
<1>3. ASSUME NEW t \in Threads, GiveBack(t) PROVE ConnectionsBounded'
  <2>1. t \in Borrowers /\ Borrowers' = Borrowers \ {t}
    BY <1>3, <1>p DEF GiveBack, Borrowers
  <2>2. Cardinality(Borrowers') = Cardinality(Borrowers) - 1
    BY <2>1, <1>f, FS_RemoveElement
  <2>3. conn[t] \in Conns
    BY <1>3 DEF GiveBack, HoldsWhere, TypeOK
  <2>4. CASE pool' = Append(pool, conn[t]) /\ Len(pool) < MAX_POOLED
    <3>1. Len(pool') = Len(pool) + 1
      BY <2>3, <2>4, <1>p, AppendProperties
    <3>2. QED
      BY <3>1, <2>2, <2>4, <1>p, <1>f DEF ConnectionsBounded
  <2>5. CASE pool' = pool
    BY <2>5, <2>2, <1>p, <1>f DEF ConnectionsBounded
  <2>6. QED
    BY <1>3, <2>4, <2>5 DEF GiveBack
<1>4. ASSUME NEW t \in Threads, CannotConnect(t) \/ CannotRevive(t) PROVE ConnectionsBounded'
  <2>1. t \in Borrowers /\ Borrowers' = Borrowers \ {t} /\ pool' = pool
    BY <1>4, <1>p DEF CannotConnect, CannotRevive, Borrowers
  <2>2. Cardinality(Borrowers') = Cardinality(Borrowers) - 1
    BY <2>1, <1>f, FS_RemoveElement
  <2>3. QED
    BY <2>1, <2>2, <1>p, <1>f DEF ConnectionsBounded
<1>5. ASSUME NEW t \in Threads,
             Connect(t) \/ Revive(t) \/ Answered(t) \/ QueryFailed(t) \/ HealthChecked(t)
      PROVE  ConnectionsBounded'
  <2>1. Borrowers' = Borrowers /\ pool' = pool
    BY <1>5, <1>p DEF Connect, Revive, Answered, QueryFailed, HealthChecked, Borrowers, Purpose
  <2>2. QED
    BY <2>1 DEF ConnectionsBounded
<1>6. CASE ResetPool
  <2>1. Len(pool') = 0 /\ Borrowers' = Borrowers
    BY <1>6, EmptySeq DEF ResetPool, Borrowers
  <2>2. QED
    BY <2>1, <1>f DEF ConnectionsBounded
<1>7. CASE UNCHANGED <<pool, pc>>
  BY <1>7 DEF ConnectionsBounded, Borrowers
<1>8. QED
  BY <1>1, <1>2, <1>3, <1>4, <1>5, <1>6, <1>7
  DEF Next, Step, WarehouseUpDown, DropConnection, vars

-----------------------------------------------------------------------------
LEMMA IInvInit == Init => IInv
<1> SUFFICES ASSUME Init PROVE IInv
  OBVIOUS
<1>1. TypeOK
  BY TypeOKInit
<1>2. HoldsWhere
  BY DEF Init, HoldsWhere
<1>3. Len(pool) = 0 /\ Pooled = {} /\ Borrowers = {}
  BY EmptySeq DEF Init, Pooled, ToSet, Borrowers
<1>4. OneOwner
  BY <1>3 DEF Init, OneOwner
<1>5. NoLeakedSocket
  BY DEF Init, NoLeakedSocket
<1>6. ConnectionsBounded
  BY <1>3, ThreadsFinite, MaxPooledNat, FS_EmptySet, FS_CardinalityType DEF ConnectionsBounded
<1>7. QED
  BY <1>1, <1>2, <1>4, <1>5, <1>6 DEF IInv

LEMMA IInvStep == IInv /\ [Next]_vars => IInv'
BY TypeOKStep, HoldsWhereStep, OneOwnerStep, NoLeakStep, BoundedStep DEF IInv

(* sourcedb.py:55-84.  The invariant holds in every state the pool can reach. *)
THEOREM Invariant == Spec => []IInv
BY IInvInit, IInvStep, PTL DEF Spec

(* sourcedb.py:18-20.  The variables keep their types. *)
THEOREM Types == Spec => []TypeOK
<1>1. IInv => TypeOK
  BY DEF IInv
<1>2. QED
  BY <1>1, Invariant, PTL

(* sourcedb.py:62-64, 77-79.  No connection is ever in two places: two threads
   never use the same one, and none in use is in the pool. *)
THEOREM Exclusive == Spec => []OneOwner
<1>1. IInv => OneOwner
  BY DEF IInv
<1>2. QED
  BY <1>1, Invariant, PTL

(* sourcedb.py:78-84, 126-135.  No connection is forgotten open. *)
THEOREM NoLeak == Spec => []NoLeakedSocket
<1>1. IInv => NoLeakedSocket
  BY DEF IInv
<1>2. QED
  BY <1>1, Invariant, PTL

(* sourcedb.py:61-67.  A process never has more connections pooled and borrowed
   than it has threads. *)
THEOREM Bounded == Spec => []ConnectionsBounded
<1>1. IInv => ConnectionsBounded
  BY DEF IInv
<1>2. QED
  BY <1>1, Invariant, PTL

(* sourcedb.py:65-72.  The connection a caller starts on is open at that moment. *)
THEOREM Alive == Spec => BorrowedAlive
<1>1. ASSUME IInv, [Next]_vars,
             NEW t \in Threads, pc[t] \in {"connect", "ping"}, pc'[t] \in Purpose
      PROVE  socket'[conn'[t]] = "open"
  <2>1. Connect(t) \/ Revive(t)
    BY <1>1 DEF IInv, TypeOK, Location, Purpose, Next, Step, PopPooled, PoolEmpty, Connect,
       Revive, CannotConnect, CannotRevive, Answered, QueryFailed, HealthChecked, GiveBack,
       ResetPool, WarehouseUpDown, DropConnection, vars
  <2>2. QED
    BY <1>1, <2>1 DEF IInv, TypeOK, HoldsWhere, Connect, Revive
<1>2. IInv /\ [Next]_vars =>
        [\A t \in Threads : pc[t] \in {"connect", "ping"} /\ pc'[t] \in Purpose
             => socket'[conn'[t]] = "open"]_vars
  BY <1>1
<1>3. QED
  BY <1>2, Invariant, PTL DEF Spec, BorrowedAlive

(* sourcedb.py:20, 78-84.  With no more threads than pool slots, whatever is given
   back is pooled: the branch that closes a connection is dead code. *)
THEOREM AlwaysPooled ==
  ASSUME Cardinality(Threads) <= MAX_POOLED
  PROVE  Spec => NeverClosedOnReturn
<1>1. ASSUME IInv, NEW t \in Threads, GiveBack(t)
      PROVE  Len(pool') = Len(pool) + 1
  <2>1. t \in Borrowers /\ IsFiniteSet(Borrowers)
    BY <1>1, ThreadsFinite, FS_Subset DEF GiveBack, Borrowers
  <2>2. Cardinality(Borrowers) \in Nat /\ Cardinality(Borrowers) >= 1
    BY <2>1, FS_RemoveElement, FS_EmptySet, FS_CardinalityType
  <2>3. pool \in Seq(Conns) /\ Len(pool) \in Nat /\ conn[t] \in Conns
    BY <1>1, LenProperties DEF IInv, TypeOK, HoldsWhere, GiveBack
  <2>4. Len(pool) < MAX_POOLED
    BY <1>1, <2>2, <2>3, ThreadsFinite, FS_CardinalityType, MaxPooledNat
    DEF IInv, ConnectionsBounded
  <2>5. QED
    BY <1>1, <2>3, <2>4, AppendProperties DEF GiveBack
<1>2. IInv /\ [Next]_vars =>
        [\A t \in Threads : GiveBack(t) => Len(pool') = Len(pool) + 1]_vars
  BY <1>1
<1>3. QED
  BY <1>2, Invariant, PTL DEF Spec, NeverClosedOnReturn
=============================================================================
