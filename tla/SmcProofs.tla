---------------------------------- MODULE SmcProofs ----------------------------------
(***************************************************************************)
(* Proofs about ThreadData and, on top of it, Smc, for any numbers of      *)
(* cores, threads, clients and callers.  What ThreadData rests on is the   *)
(* pool's promise: a core that runs a thread runs an active one, and no    *)
(* other core runs any (OneRuns).  What Smc rests on is that a call has    *)
(* one caller, at most one core and, if it is a 32 bit one, at most one    *)
(* thread (Serving, Origins), and that the registers of the core and the   *)
(* caller's own notes say where the thread is (Underway, Waiting): the     *)
(* four together are inductive.                                            *)
(***************************************************************************)
EXTENDS Smc, WellFoundedInduction, TLAPS

(* The functions of the pool, which ThreadPool leaves untyped.             *)
PoolType ==
  /\ DOMAIN st = Thread /\ st = [t \in Thread |-> st[t]]
  /\ client \in [Thread -> Clnt]
  /\ core \in [CPU -> (Thread \X Clnt) \cup {None}]

(* have_one_active_thread() keeps a second core from running a thread.     *)
OneRuns ==
  /\ \A c \in CPU : core[c] # None =>
       core[c] \in Thread \X Clnt /\ st[core[c][1]] = "ACTIVE"
  /\ \A c, d \in CPU : core[c] # None /\ core[d] # None => c = d

(* What the call has set is what the slot holds.                           *)
MineKept == \A t \in Thread : mine[t] # NULL => tsd[t] = mine[t]

Functions ==
  /\ tsd = [t \in Thread |-> tsd[t]]
  /\ tsd_free = [t \in Thread |-> tsd_free[t]]
  /\ mine = [t \in Thread |-> mine[t]]

DataInv == PoolType /\ OneRuns /\ MineKept /\ Functions /\ DataTypeOK

LEMMA InitInv == DataInit => DataInv
  BY ThreadDataAssumption
  DEF DataInit, Init, DataInv, PoolType, OneRuns, MineKept, Functions, DataTypeOK

(* A core is given a thread only when none is active.                      *)
LEMMA RunInv ==
  ASSUME DataInv, NEW c \in CPU, NEW t \in Thread, NEW k \in Clnt,
         Run(c, t, k), client' \in {client, [client EXCEPT ![t] = k]}
  PROVE  PoolType' /\ OneRuns'
<1> USE DEF DataInv, PoolType, OneRuns, Run, NoneActive
<1>1. PoolType'
  OBVIOUS
<1>2. \A d \in CPU : core[d] = None
  OBVIOUS
<1>3. \A d \in CPU : core'[d] # None => d = c
  BY <1>2
<1>4. core'[c] = <<t, k>> /\ st'[t] = "ACTIVE"
  OBVIOUS
<1>5. OneRuns'
  BY <1>3, <1>4
<1> QED  BY <1>1, <1>5

LEMMA StopInv ==
  ASSUME DataInv, NEW c \in CPU, NEW s, Stop(c, s)
  PROVE  PoolType' /\ OneRuns'
<1> USE DEF DataInv, PoolType, OneRuns, Stop
<1>1. PoolType'
  OBVIOUS
<1>2. \A d \in CPU : core'[d] = None
  OBVIOUS
<1> QED  BY <1>1, <1>2

LEMMA NextInv == DataInv /\ [DataNext]_dataVars => DataInv'
<1> SUFFICES ASSUME DataInv, [DataNext]_dataVars PROVE DataInv'
  OBVIOUS
<1>1. ASSUME NEW c \in CPU, NEW p \in Data, SetTsd(c, p) PROVE DataInv'
  <2> DEFINE u == core[c][1]
  <2>1. u \in Thread /\ p # NULL
    BY <1>1, ThreadDataAssumption DEF SetTsd, DataInv, OneRuns
  <2>2. PoolType' /\ OneRuns'
    BY <1>1 DEF SetTsd, pool, DataInv, PoolType, OneRuns
  <2>3. /\ tsd' = [tsd EXCEPT ![u] = p]
        /\ tsd_free' = [tsd_free EXCEPT ![u] = TRUE]
        /\ mine' = [mine EXCEPT ![u] = p]
    BY <1>1 DEF SetTsd
  <2> HIDE DEF u
  <2>4. MineKept' /\ Functions' /\ DataTypeOK'
    BY <2>1, <2>3 DEF DataInv, MineKept, Functions, DataTypeOK
  <2> QED  BY <2>2, <2>4 DEF DataInv
<1>2. ASSUME NEW c \in CPU, NEW t \in Thread, NEW k \in Clnt, StartCall(c, t, k)
      PROVE  DataInv'
  <2>1. PoolType' /\ OneRuns'
    BY <1>2, RunInv DEF StartCall, Start
  <2>2. mine' = [mine EXCEPT ![t] = NULL] /\ UNCHANGED <<tsd, tsd_free>>
    BY <1>2 DEF StartCall
  <2>3. MineKept' /\ Functions' /\ DataTypeOK'
    BY <2>2 DEF DataInv, MineKept, Functions, DataTypeOK
  <2> QED  BY <2>1, <2>3 DEF DataInv
<1>3. ASSUME UNCHANGED <<tsd, tsd_free, mine>>, PoolType', OneRuns' PROVE DataInv'
  BY <1>3 DEF DataInv, MineKept, Functions, DataTypeOK
<1>4. ASSUME NEW c \in CPU, FinishCall(c) PROVE DataInv'
  BY <1>3, <1>4, StopInv DEF FinishCall, Finish
<1>5. ASSUME NEW c \in CPU, SuspendCall(c) PROVE DataInv'
  BY <1>3, <1>5, StopInv DEF SuspendCall, Suspend
<1>6. ASSUME NEW c \in CPU, NEW t \in Thread, NEW k \in Clnt, ResumeCall(c, t, k)
      PROVE  DataInv'
  BY <1>3, <1>6, RunInv DEF ResumeCall, Resume
<1>7. CASE UNCHANGED dataVars
  BY <1>7 DEF dataVars, pool, DataInv, PoolType, OneRuns, MineKept, Functions, DataTypeOK
<1> QED  BY <1>1, <1>2, <1>4, <1>5, <1>6, <1>7 DEF DataNext

(* The data keeps its type, and its function with it.                      *)
THEOREM DataTypeCorrect == DataSpec => []DataTypeOK
<1>1. DataInv => DataTypeOK
  BY DEF DataInv
<1> QED  BY InitInv, NextInv, <1>1, PTL DEF DataSpec

(* Whatever thread_set_tsd() stored, thread_get_tsd() returns it to the    *)
(* same call on every core, and nothing to a core that runs no thread.     *)
THEOREM DataFollows == DataSpec => []DataFollowsThread
<1>1. DataInv => DataFollowsThread
  BY DEF DataInv, OneRuns, MineKept, DataFollowsThread, GetTsd
<1> QED  BY InitInv, NextInv, <1>1, PTL DEF DataSpec

(***************************************************************************)
(* The SMC interface                                                       *)
(***************************************************************************)
(* Words that must differ, and identifiers that do not.                    *)
LEMMA Words ==
  /\ \A f \in (DOMAIN Id \ Resumes) \cup Resumes64 : Id[f] # Id["CALL_RETURN_FROM_RPC"]
  /\ \A f \in Resumes32 : Id[f] = Id["CALL_RETURN_FROM_RPC"]
  /\ \A f \in Resumes64 : Is64(Id[f])
  /\ ~Is64(Id["CALL_RETURN_FROM_RPC"])
  /\ ~IsFastCall(Id["CALL_RETURN_FROM_RPC"])
  /\ \A f \in RpcFunc : IsRpc(RpcVal(f)) /\ RpcVal(f) # UnknownFunction
  /\ ~IsRpc(Ok) /\ ~IsRpc(Ebusy) /\ ~IsRpc(Eresume)
  /\ Ok # Ebusy /\ Ok # Eresume /\ Ebusy # Eresume
  /\ UnknownFunction \notin {Ebusy, Eresume}
  /\ \A w : TeeEntry(w) \subseteq {Ok, UnknownFunction}
<1>1. /\ \A f \in (DOMAIN Id \ Resumes) \cup Resumes64 : Id[f] # Id["CALL_RETURN_FROM_RPC"]
      /\ \A f \in Resumes32 : Id[f] = Id["CALL_RETURN_FROM_RPC"]
      /\ \A f \in Resumes64 : Is64(Id[f])
      /\ ~Is64(Id["CALL_RETURN_FROM_RPC"])
      /\ ~IsFastCall(Id["CALL_RETURN_FROM_RPC"])
  BY DEF Id, Resumes, Resumes32, Resumes64, CallVal, IsFastCall, Is64, Std, Fast, Conv32, Conv64,
         TrustedOs, TrustedOsApi
<1>2. \A f \in RpcFunc : IsRpc(RpcVal(f)) /\ RpcVal(f) # UnknownFunction
  BY DEF RpcFunc, IsRpc, RpcVal, UnknownFunction
<1>3. /\ ~IsRpc(Ok) /\ ~IsRpc(Ebusy) /\ ~IsRpc(Eresume)
      /\ Ok # Ebusy /\ Ok # Eresume /\ Ebusy # Eresume
      /\ UnknownFunction \notin {Ebusy, Eresume}
  BY DEF IsRpc, Ok, Ebusy, Eresume, UnknownFunction
<1>4. \A w : TeeEntry(w) \subseteq {Ok, UnknownFunction}
  BY DEF TeeEntry
<1> QED BY <1>1, <1>2, <1>3, <1>4

LEMMA Least == ASSUME NEW S \in SUBSET Nat, S # {} PROVE \E t \in S : \A u \in S : t <= u
<1> DEFINE R == OpToRel(<, Nat)
<1>1. \A t, u \in Nat : <<u, t>> \in R <=> u < t
  BY DEF OpToRel
<1>2. IsWellFoundedOn(R, Nat)
  BY NatLessThanWellFounded
<1> HIDE DEF R
<1>3. \E t \in S : \A u \in S : <<u, t>> \notin R
  BY <1>2, WFMin
<1>4. PICK t \in S : \A u \in S : <<u, t>> \notin R
  BY <1>3
<1>5. \A u \in S : ~(u < t)
  BY <1>1, <1>4, Zenon
<1>6. S \subseteq Nat
  OBVIOUS
<1> HIDE <1>1
<1>7. \A u \in S : t <= u
  BY <1>5, <1>6
<1> QED BY <1>7

(* The slot thread_alloc_and_run() takes.                                  *)
LEMMA FirstFree == Free # {} => First(Free) \in Thread /\ st[First(Free)] = "FREE"
<1>1. Free \in SUBSET Nat
  BY SmcAssumption DEF Free
<1>2. Free # {} => First(Free) \in Free
  BY <1>1, Least DEF First
<1> QED BY <1>2 DEF Free

LEMMA GuestIsClient == Guest \in Clnt
  BY SmcAssumption DEF Guest

SmcType ==
  /\ at \in [CPU -> {"nsec", "recv", "fast", "thread", "answer"}]
  /\ r0 = [c \in CPU |-> r0[c]] /\ r3 = [c \in CPU |-> r3[c]]
  /\ a0 = [t \in Thread |-> a0[t]]
  /\ view \in [Caller -> {"idle", "calling", "pending", "resuming"}]
  /\ wide \in [Caller -> BOOLEAN]
  /\ saved = [u \in Caller |-> saved[u]]
  /\ who \in [CPU -> Caller \cup {Nobody}]
  /\ origin \in [Thread -> Caller \cup {Nobody}]

(* A caller has one call at a time, and a call has one core and one thread.*)
Serving ==
  /\ \A c \in CPU : at[c] # "nsec" =>
       who[c] \in Caller /\ view[who[c]] \in {"calling", "resuming"}
  /\ \A c, d \in CPU : at[c] # "nsec" /\ at[d] # "nsec" /\ who[c] = who[d] => c = d
  /\ \A u \in Caller : view[u] \in {"calling", "resuming"} =>
       \E c \in CPU : at[c] # "nsec" /\ who[c] = u

(* The threads of 32 bit calls.  Those of 64 bit calls that nobody can     *)
(* resume stay suspended behind their callers' backs.                      *)
Held(t) == st[t] # "FREE" /\ ~Is64(a0[t])

Origins ==
  /\ \A t \in Thread : st[t] # "FREE" => origin[t] \in Caller /\ client[t] = Guest
  /\ \A t, s \in Thread : Held(t) /\ Held(s) /\ origin[t] = origin[s] => t = s

NoThread(u) == \A t \in Thread : Held(t) => origin[t] # u
Suspended(u, t) == t \in Thread /\ Held(t) /\ st[t] = "SUSPENDED" /\ origin[t] = u

(* Where a caller's thread is while the caller does not run.               *)
Waiting == \A u \in Caller :
  /\ view[u] = "idle" \/ wide[u] => NoThread(u)
  /\ view[u] = "pending" /\ ~wide[u] => Suspended(u, saved[u])

(* What a core's registers say about the thread of its caller.             *)
Underway(c) ==
  LET u == who[c] IN
  /\ at[c] = "recv" =>
       \/ /\ r0[c] # Id["CALL_RETURN_FROM_RPC"] /\ (Is64(r0[c]) <=> wide[u])
          /\ view[u] = "resuming" => wide[u]
          /\ NoThread(u)
       \/ /\ r0[c] = Id["CALL_RETURN_FROM_RPC"] /\ view[u] = "resuming" /\ ~wide[u]
          /\ r3[c] = saved[u] /\ Suspended(u, saved[u])
  /\ at[c] = "fast" => NoThread(u)
  /\ at[c] = "thread" => /\ core[c] # None /\ origin[core[c][1]] = u
                         /\ Is64(a0[core[c][1]]) <=> wide[u]
  /\ at[c] = "answer" =>
       \/ r0[c] \in {Ok, UnknownFunction} /\ NoThread(u)
       \/ r0[c] = Ebusy /\ view[u] = "calling" /\ NoThread(u)
       \/ r0[c] = Ebusy /\ view[u] = "resuming" /\ (wide[u] \/ Suspended(u, saved[u]))
       \/ IsRpc(r0[c]) /\ r0[c] # UnknownFunction /\ (wide[u] \/ Suspended(u, r3[c]))

CallInv == SmcType /\ Serving /\ Origins /\ Waiting /\ \A c \in CPU : Underway(c)
SmcInv == DataInv /\ CallInv

LEMMA SmcInitInv == SmcInit => SmcInv
<1> SUFFICES ASSUME SmcInit PROVE SmcInv
  OBVIOUS
<1>1. DataInv
  BY InitInv DEF SmcInit
<1>2. \A t \in Thread : st[t] = "FREE"
  BY DEF SmcInit, DataInit, Init
<1>3. CallInv
  BY <1>2 DEF SmcInit, CallInv, SmcType, Serving, Origins, Waiting, NoThread, Held, Underway
<1> QED BY <1>1, <1>3 DEF SmcInv

(* Whatever the interface does to the pool is a step of ThreadData.        *)
LEMMA StepsOfPool == [SmcNext]_vars => [DataNext]_dataVars
<1>1. ASSUME NEW c \in CPU, AllocAndRun(c) PROVE [DataNext]_dataVars
  BY <1>1, FirstFree, GuestIsClient DEF AllocAndRun, Refuse, DataNext
<1>2. ASSUME NEW c \in CPU, ResumeFromRpc(c) PROVE [DataNext]_dataVars
  BY <1>2, GuestIsClient DEF ResumeFromRpc, Refuse, Resumable, DataNext
<1>3. ASSUME NEW c \in CPU, ThreadExit(c) \/ ThreadRpc(c) \/ SetData(c)
      PROVE  [DataNext]_dataVars
  BY <1>3 DEF ThreadExit, ThreadRpc, SetData, DataNext
<1>4. ASSUME NEW c \in CPU, TakeAnswer(c) \/ FastCall(c) \/ FastEntry(c)
      PROVE  UNCHANGED dataVars
  BY <1>4 DEF TakeAnswer, FastCall, FastEntry
<1>5. ASSUME NEW c \in CPU, NEW u \in Caller, Call(c, u) \/ ReturnFromRpc(c, u)
      PROVE  UNCHANGED dataVars
  BY <1>5 DEF Call, ReturnFromRpc, Issue
<1>6. UNCHANGED vars => UNCHANGED dataVars
  BY DEF vars
<1> QED BY <1>1, <1>2, <1>3, <1>4, <1>5, <1>6 DEF SmcNext

(* A caller without a call makes one, or one that holds a suspended thread *)
(* resumes it: no other core serves it.                                    *)
LEMMA IssueStep ==
  ASSUME SmcInv, NEW c \in CPU, NEW u \in Caller, Call(c, u) \/ ReturnFromRpc(c, u)
  PROVE  CallInv'
<1> USE DEF SmcInv, CallInv
<1>1. /\ at[c] = "nsec" /\ view[u] \in {"idle", "pending"}
      /\ at' = [at EXCEPT ![c] = "recv"] /\ who' = [who EXCEPT ![c] = u]
      /\ UNCHANGED <<st, client, core, a0, saved, origin>>
  BY DEF Call, ReturnFromRpc, Issue, dataVars, pool
<1>2. /\ wide' = [wide EXCEPT ![u] = Is64(r0'[c])]
      /\ \/ /\ view[u] = "idle" /\ view' = [view EXCEPT ![u] = "calling"]
            /\ r0'[c] # Id["CALL_RETURN_FROM_RPC"]
         \/ /\ view[u] = "pending" /\ view' = [view EXCEPT ![u] = "resuming"]
            /\ wide[u] /\ Is64(r0'[c]) /\ r0'[c] # Id["CALL_RETURN_FROM_RPC"]
         \/ /\ view[u] = "pending" /\ view' = [view EXCEPT ![u] = "resuming"]
            /\ ~wide[u] /\ ~Is64(r0'[c])
            /\ r0'[c] = Id["CALL_RETURN_FROM_RPC"] /\ r3'[c] = saved[u]
  <2>1. CASE Call(c, u)
    <3>1. PICK f \in DOMAIN Id \ Resumes : Issue(c, u, f, "idle", "calling")
      BY <2>1 DEF Call
    <3> QED BY <3>1, Words DEF Issue, SmcType
  <2>2. CASE ReturnFromRpc(c, u)
    <3>1. PICK f \in IF wide[u] THEN Resumes64 ELSE Resumes32 : Issue(c, u, f, "pending", "resuming")
      BY <2>2 DEF ReturnFromRpc
    <3>2. r3'[c] = saved[u] /\ r0'[c] = Id[f]
      BY <2>2, <3>1 DEF ReturnFromRpc, Issue, SmcType
    <3> QED BY <3>1, <3>2, Words DEF Issue
  <2> QED BY <2>1, <2>2
<1>3. SmcType' /\ \A d \in CPU \ {c} : r0'[d] = r0[d] /\ r3'[d] = r3[d]
  <2>1. PICK w, n : r0' = [r0 EXCEPT ![c] = w] /\ r3' = [r3 EXCEPT ![c] = n]
    BY DEF Call, ReturnFromRpc, Issue
  <2>2. Is64(r0'[c]) \in BOOLEAN
    BY DEF Is64
  <2>3. wide' \in [Caller -> BOOLEAN]
    BY <1>2, <2>2 DEF SmcType
  <2> QED BY <1>1, <1>2, <2>1, <2>3 DEF SmcType
<1>4. Serving'
  BY <1>1, <1>2 DEF Serving, SmcType
<1>5. /\ Origins'
      /\ \A v : (NoThread(v)' <=> NoThread(v)) /\ \A t : Suspended(v, t)' <=> Suspended(v, t)
  BY <1>1 DEF Origins, NoThread, Suspended, Held
<1>6. /\ view'[u] \in {"calling", "resuming"} /\ (wide'[u] <=> Is64(r0'[c]))
      /\ \A v \in Caller \ {u} : view'[v] = view[v] /\ wide'[v] = wide[v]
  BY <1>1, <1>2 DEF SmcType
<1>7. view[u] = "idle" \/ wide[u] => NoThread(u)
  BY DEF Waiting
<1>8. wide'[u] => NoThread(u)
  BY <1>2, <1>6, <1>7
<1>9. Waiting'
  <2>1. ASSUME NEW v \in Caller
        PROVE  /\ view'[v] = "idle" \/ wide'[v] => NoThread(v)
               /\ view'[v] = "pending" /\ ~wide'[v] => Suspended(v, saved[v])
    <3>1. CASE v = u
      BY <1>6, <1>8, <3>1
    <3>2. CASE v # u
      BY <1>6, <3>2 DEF Waiting
    <3> QED BY <3>1, <3>2
  <2> QED BY <1>1, <1>5, <2>1 DEF Waiting
<1>10. Underway(c)'
  <2>1. at'[c] = "recv" /\ who'[c] = u
    BY <1>1 DEF SmcType
  <2>2. CASE r0'[c] = Id["CALL_RETURN_FROM_RPC"]
    <3>1. /\ view[u] = "pending" /\ view'[u] = "resuming" /\ ~wide[u] /\ ~wide'[u]
          /\ r3'[c] = saved[u] /\ Suspended(u, saved[u])
      BY <1>2, <1>6, <2>2 DEF SmcType, Waiting
    <3> QED BY <1>1, <1>5, <2>1, <2>2, <3>1 DEF Underway
  <2>3. CASE r0'[c] # Id["CALL_RETURN_FROM_RPC"]
    <3>1. NoThread(u) /\ (view'[u] = "resuming" => wide'[u])
      BY <1>2, <1>6, <1>7, <2>3 DEF SmcType
    <3> QED BY <1>5, <1>6, <2>1, <2>3, <3>1 DEF Underway
  <2> QED BY <2>2, <2>3
<1>11. ASSUME NEW d \in CPU \ {c}, at[d] # "nsec" PROVE Underway(d)'
  <2>1. who[d] \in Caller \ {u}
    BY <1>1, <1>11 DEF Serving
  <2>2. /\ at'[d] = at[d] /\ who'[d] = who[d] /\ r0'[d] = r0[d] /\ r3'[d] = r3[d]
        /\ view'[who[d]] = view[who[d]] /\ wide'[who[d]] = wide[who[d]]
    BY <1>1, <1>2, <1>3, <2>1 DEF SmcType
  <2> QED BY <1>1, <1>11, <2>2 DEF Underway, NoThread, Suspended, Held
<1>12. \A d \in CPU \ {c} : at[d] = "nsec" => Underway(d)'
  BY <1>1 DEF Underway, SmcType
<1> QED BY <1>3, <1>4, <1>5, <1>9, <1>10, <1>11, <1>12

(* What the caller reads in r0 tells it whether it has a thread.           *)
LEMMA AnswerStep ==
  ASSUME SmcInv, NEW c \in CPU, TakeAnswer(c)
  PROVE  CallInv'
<1> USE DEF SmcInv, CallInv
<1> DEFINE u == who[c]
           rpc == IsRpc(r0[c]) /\ r0[c] # UnknownFunction
           retry == view[u] = "resuming" /\ r0[c] = Ebusy
<1>1. /\ at[c] = "answer" /\ at' = [at EXCEPT ![c] = "nsec"]
      /\ view' = [view EXCEPT ![u] = IF rpc \/ retry THEN "pending" ELSE "idle"]
      /\ wide' = [wide EXCEPT ![u] = @ /\ (rpc \/ retry)]
      /\ saved' = [saved EXCEPT ![u] = IF rpc THEN r3[c] ELSE @]
      /\ who' = [who EXCEPT ![c] = Nobody]
      /\ r0' = [r0 EXCEPT ![c] = Ok] /\ r3' = [r3 EXCEPT ![c] = 0]
      /\ UNCHANGED <<st, client, core, a0, origin>>
  BY DEF TakeAnswer, dataVars, pool
<1>2. u \in Caller /\ view[u] \in {"calling", "resuming"} /\ Underway(c)
  BY <1>1 DEF Serving
<1>3. \/ rpc /\ (wide[u] \/ Suspended(u, r3[c]))
      \/ ~rpc /\ retry /\ (wide[u] \/ Suspended(u, saved[u]))
      \/ ~rpc /\ ~retry /\ NoThread(u)
  BY <1>1, <1>2, Words DEF Underway
<1> HIDE DEF u, rpc, retry
<1>4. SmcType'
  BY <1>1, <1>2 DEF SmcType
<1>5. u = who[c]
  BY DEF u
<1>6. Serving'
  BY <1>1, <1>2, <1>5 DEF Serving, SmcType
<1>7. Origins' /\ Waiting'
  <2>1. /\ Origins'
        /\ \A v : (NoThread(v)' <=> NoThread(v)) /\ \A t : Suspended(v, t)' <=> Suspended(v, t)
    BY <1>1 DEF Origins, NoThread, Suspended, Held
  <2>2. ASSUME NEW v \in Caller
        PROVE  /\ view'[v] = "idle" \/ wide'[v] => NoThread(v)
               /\ view'[v] = "pending" /\ ~wide'[v] => Suspended(v, saved'[v])
    <3>1. CASE v # u
      <4>1. view'[v] = view[v] /\ wide'[v] = wide[v] /\ saved'[v] = saved[v]
        BY <1>1, <3>1
      <4> QED BY <4>1 DEF Waiting
    <3>2. CASE v = u
      <4>1. wide[u] => NoThread(u)
        BY <1>2 DEF Waiting
      <4>2. CASE rpc \/ retry
        <5>1. view'[u] = "pending" /\ wide'[u] = wide[u]
          BY <1>1, <1>2, <4>2 DEF SmcType
        <5>2. wide[u] \/ Suspended(u, saved'[u])
          BY <1>1, <1>2, <1>3, <4>2 DEF SmcType
        <5> QED BY <3>2, <4>1, <5>1, <5>2
      <4>3. CASE ~rpc /\ ~retry
        <5>1. view'[u] = "idle" /\ NoThread(u)
          BY <1>1, <1>2, <1>3, <4>3 DEF SmcType
        <5> QED BY <3>2, <5>1
      <4> QED BY <4>2, <4>3
    <3> QED BY <3>1, <3>2
  <2> QED BY <2>1, <2>2 DEF Waiting
<1>8. \A d \in CPU \ {c} : at[d] # "nsec" => who[d] # u
  BY <1>1, <1>5 DEF Serving
<1>9. ASSUME NEW d \in CPU \ {c}, at[d] # "nsec" PROVE Underway(d)'
  <2>1. who[d] \in Caller \ {u}
    BY <1>8, <1>9 DEF Serving
  <2>2. /\ at'[d] = at[d] /\ who'[d] = who[d] /\ r0'[d] = r0[d] /\ r3'[d] = r3[d]
        /\ view'[who[d]] = view[who[d]] /\ saved'[who[d]] = saved[who[d]]
        /\ wide'[who[d]] = wide[who[d]]
    BY <1>1, <2>1 DEF SmcType
  <2> QED BY <1>1, <1>9, <2>2 DEF Underway, NoThread, Suspended, Held
<1>10. \A d \in CPU : at'[d] = "nsec" => Underway(d)'
  BY DEF Underway
<1>11. \A d \in CPU : at'[d] # "nsec" => d # c /\ at[d] # "nsec"
  BY <1>1 DEF SmcType
<1> QED BY <1>4, <1>6, <1>7, <1>9, <1>10, <1>11

(* What a step of a core may do to threads.                                *)
Kept(t) ==
  st'[t] = st[t] /\ origin'[t] = origin[t] /\ client'[t] = client[t] /\ a0'[t] = a0[t]

Own(t, u) ==
  /\ st[t] # "FREE" => origin[t] = u
  /\ st'[t] # "FREE" => origin'[t] = u /\ client'[t] = Guest
  /\ ~Held(t) /\ Held(t)' => NoThread(u) /\ ~wide[u]

(* A core that changes what it does for its caller, and nothing of others. *)
LEMMA OwnStep ==
  ASSUME SmcInv, NEW c \in CPU, at[c] # "nsec", at'[c] # "nsec", SmcType',
         \A d \in CPU \ {c} : at'[d] = at[d] /\ r0'[d] = r0[d] /\ r3'[d] = r3[d],
         \A d \in CPU \ {c} : core[d] # None => core'[d] = core[d],
         UNCHANGED <<view, wide, saved, who>>,
         NEW s \in Thread, Kept(s) \/ Own(s, who[c]),
         \A t \in Thread \ {s} : Kept(t),
         Underway(c)'
  PROVE  CallInv'
<1> USE DEF SmcInv, CallInv
<1>1. Serving'
  BY DEF Serving, SmcType
<1>2. ASSUME NEW v \in Caller \ {who[c]}, NEW t \in Thread
      PROVE  /\ st[t] # "FREE" /\ origin[t] = v => Kept(t)
             /\ st'[t] # "FREE" /\ origin'[t] = v => Kept(t)
  BY DEF Own
<1>3. ASSUME NEW v \in Caller \ {who[c]}
      PROVE  /\ NoThread(v) => NoThread(v)'
             /\ \A t : Suspended(v, t) => Suspended(v, t)'
  BY <1>2 DEF NoThread, Suspended, Held, Kept
<1>4. who[c] \in Caller /\ view[who[c]] \in {"calling", "resuming"}
  BY DEF Serving
<1>5. Waiting'
  <2>1. wide[who[c]] => NoThread(who[c])'
    <3>1. wide[who[c]] => NoThread(who[c])
      BY <1>4 DEF Waiting
    <3>2. ASSUME wide[who[c]], NEW t \in Thread, Held(t)' PROVE origin'[t] # who[c]
      <4>1. Held(t)
        <5>1. CASE Kept(t)
          BY <3>2, <5>1 DEF Held, Kept
        <5>2. CASE Own(t, who[c])
          BY <3>2, <5>2 DEF Own
        <5> QED BY <5>1, <5>2
      <4>2. origin[t] # who[c]
        BY <3>1, <3>2, <4>1 DEF NoThread
      <4>3. Kept(t)
        BY <4>1, <4>2 DEF Own, Held
      <4> QED BY <4>2, <4>3 DEF Kept
    <3> QED BY <3>2 DEF NoThread
  <2>2. ASSUME NEW v \in Caller
        PROVE  /\ view[v] = "idle" \/ wide[v] => NoThread(v)'
               /\ view[v] = "pending" /\ ~wide[v] => Suspended(v, saved[v])'
    <3>1. CASE v = who[c]
      BY <1>4, <2>1, <3>1
    <3>2. CASE v # who[c]
      BY <1>3, <3>2 DEF Waiting
    <3> QED BY <3>1, <3>2
  <2> QED BY <2>2 DEF Waiting, Suspended, Held
<1>6. Origins'
  <2>1. \A t \in Thread : st'[t] # "FREE" => origin'[t] \in Caller /\ client'[t] = Guest
    BY <1>4 DEF Origins, Kept, Own
  <2>2. ASSUME NEW t \in Thread, NEW x \in Thread, Held(t)', Held(x)', origin'[t] = origin'[x]
        PROVE  t = x
    <3>1. ASSUME NEW y \in Thread, Held(y)', ~Held(y)
          PROVE  y = s /\ origin'[y] = who[c] /\ NoThread(who[c])
      <4>1. ~Kept(y)
        BY <3>1 DEF Kept, Held
      <4> QED BY <3>1, <4>1 DEF Own, Held
    <3>2. ASSUME NEW y \in Thread, Held(y)', Held(y) PROVE origin'[y] = origin[y]
      BY <3>2 DEF Kept, Own, Held
    <3>3. CASE Held(t) /\ Held(x)
      BY <2>2, <3>2, <3>3 DEF Origins
    <3>4. CASE ~Held(t) /\ ~Held(x)
      BY <2>2, <3>1, <3>4
    <3>5. CASE ~Held(t) /\ Held(x)
      BY <2>2, <3>1, <3>2, <3>5 DEF NoThread
    <3>6. CASE Held(t) /\ ~Held(x)
      BY <2>2, <3>1, <3>2, <3>6 DEF NoThread
    <3> QED BY <3>3, <3>4, <3>5, <3>6
  <2> QED BY <2>1, <2>2 DEF Origins
<1>7. ASSUME NEW d \in CPU \ {c}, at[d] # "nsec" PROVE Underway(d)'
  <2>1. who[d] \in Caller \ {who[c]}
    BY <1>7 DEF Serving
  <2>2. ASSUME at[d] = "thread"
        PROVE  /\ core'[d] # None /\ origin'[core'[d][1]] = who[d]
               /\ Is64(a0'[core'[d][1]]) <=> wide[who[d]]
    <3>1. /\ core[d] # None /\ origin[core[d][1]] = who[d] /\ core'[d] = core[d]
          /\ Is64(a0[core[d][1]]) <=> wide[who[d]]
      BY <2>2 DEF Underway
    <3>2. core[d][1] \in Thread /\ st[core[d][1]] = "ACTIVE"
      BY <3>1 DEF DataInv, OneRuns
    <3>3. Kept(core[d][1])
      BY <1>2, <2>1, <3>1, <3>2
    <3> QED BY <3>1, <3>3 DEF Kept
  <2>3. CASE at[d] = "thread"
    BY <2>2, <2>3 DEF Underway
  <2>4. CASE at[d] # "thread"
    BY <1>3, <2>1, <2>4 DEF Underway
  <2> QED BY <2>3, <2>4
<1>8. \A d \in CPU \ {c} : at[d] = "nsec" => Underway(d)'
  BY DEF Underway
<1> QED BY <1>1, <1>5, <1>6, <1>7, <1>8

(* A refusal, or another way to answer without touching a thread.          *)
LEMMA RegistersStep ==
  ASSUME SmcInv, NEW c \in CPU, NEW p \in {"fast", "answer"}, NEW w, NEW n,
         at[c] # "nsec", at' = [at EXCEPT ![c] = p], r0' = [r0 EXCEPT ![c] = w],
         r3' = [r3 EXCEPT ![c] = n], UNCHANGED <<st, client, core, a0>>,
         UNCHANGED <<view, wide, saved, who, origin>>, Underway(c)'
  PROVE  CallInv'
<1> USE DEF SmcInv, CallInv
<1>1. SmcType' /\ at'[c] # "nsec"
  BY DEF SmcType
<1>2. \A d \in CPU \ {c} : at'[d] = at[d] /\ r0'[d] = r0[d] /\ r3'[d] = r3[d]
  BY DEF SmcType
<1>3. 0 \in Thread /\ \A t \in Thread : Kept(t)
  BY SmcAssumption DEF Kept
<1> QED BY <1>1, <1>2, <1>3, OwnStep

LEMMA FastStep ==
  ASSUME SmcInv, NEW c \in CPU, FastCall(c) \/ FastEntry(c)
  PROVE  CallInv'
<1> USE DEF SmcInv, CallInv
<1>1. UNCHANGED <<st, client, core, a0>> /\ UNCHANGED <<view, wide, saved, who, origin>>
  BY DEF FastCall, FastEntry, CallerWaits, dataVars, pool
<1>2. r3' = [r3 EXCEPT ![c] = r3[c]]
  BY DEF FastCall, FastEntry, SmcType
<1>3. NoThread(who[c])
  BY Words DEF FastCall, FastEntry, Underway
<1>4. CASE FastCall(c)
  <2>1. at[c] = "recv" /\ at' = [at EXCEPT ![c] = "fast"] /\ r0' = [r0 EXCEPT ![c] = r0[c]]
    BY <1>4 DEF FastCall, SmcType
  <2>2. Underway(c)'
    BY <1>1, <1>3, <2>1 DEF Underway, NoThread, Held, SmcType
  <2> QED BY <1>1, <1>2, <2>1, <2>2, RegistersStep
<1>5. CASE FastEntry(c)
  <2>1. PICK w \in {Ok, UnknownFunction} :
          at[c] = "fast" /\ at' = [at EXCEPT ![c] = "answer"] /\ r0' = [r0 EXCEPT ![c] = w]
    BY <1>5, Words DEF FastEntry, Answer
  <2>2. Underway(c)'
    BY <1>1, <1>3, <2>1 DEF Underway, NoThread, Held, SmcType
  <2> QED BY <1>1, <1>2, <2>1, <2>2, RegistersStep
<1> QED BY <1>4, <1>5

(* A refused call leaves a new call without a thread and a suspended one   *)
(* suspended; the number handed back is good.                              *)
LEMMA RefuseStep ==
  ASSUME SmcInv, NEW c \in CPU, NEW w, at[c] = "recv", CallerWaits, Refuse(c, w), w = Ebusy
  PROVE  CallInv'
<1> USE DEF SmcInv, CallInv
<1>1. /\ UNCHANGED <<st, client, core, a0>> /\ UNCHANGED <<view, wide, saved, who, origin>>
      /\ at' = [at EXCEPT ![c] = "answer"] /\ r0' = [r0 EXCEPT ![c] = w]
      /\ r3' = [r3 EXCEPT ![c] = 0]
  BY DEF Refuse, Answer, CallerWaits, dataVars, pool
<1>2. Underway(c)'
  <2>1. /\ at'[c] = "answer" /\ who'[c] = who[c] /\ r0'[c] = Ebusy
        /\ NoThread(who[c])' <=> NoThread(who[c])
        /\ \A t : Suspended(who[c], t)' <=> Suspended(who[c], t)
    BY <1>1 DEF NoThread, Suspended, Held, SmcType
  <2>2. who[c] \in Caller /\ view[who[c]] \in {"calling", "resuming"}
    BY DEF Serving
  <2>3. \/ view[who[c]] = "calling" /\ NoThread(who[c])
        \/ view[who[c]] = "resuming" /\ wide[who[c]]
        \/ view[who[c]] = "resuming" /\ Suspended(who[c], saved[who[c]])
    BY <2>2 DEF Underway
  <2> QED BY <1>1, <2>1, <2>3 DEF Underway
<1> QED BY <1>1, <1>2, RegistersStep

(* A core is given a thread of its caller.                                 *)
LEMMA RunStep ==
  ASSUME SmcInv, NEW c \in CPU, NEW t \in Thread, Run(c, t, Guest), at[c] = "recv",
         at' = [at EXCEPT ![c] = "thread"], UNCHANGED <<r0, r3, view, wide, saved, who>>,
         SmcType', Own(t, who[c]), \A s \in Thread \ {t} : Kept(s), origin'[t] = who[c],
         Is64(a0'[t]) <=> wide[who[c]]
  PROVE  CallInv'
<1> USE DEF SmcInv, CallInv
<1>1. core' = [core EXCEPT ![c] = <<t, Guest>>] /\ core \in [CPU -> (Thread \X Clnt) \cup {None}]
  BY DEF Run, DataInv, PoolType
<1>2. <<t, Guest>> # None
  BY SmcAssumption, GuestIsClient
<1>3. at'[c] = "thread" /\ \A d \in CPU \ {c} : at'[d] = at[d]
  BY DEF SmcType
<1>4. Underway(c)'
  BY <1>1, <1>2, <1>3 DEF Underway
<1>5. \A d \in CPU \ {c} : r0'[d] = r0[d] /\ r3'[d] = r3[d] /\ core'[d] = core[d]
  BY <1>1
<1> QED BY <1>3, <1>4, <1>5, OwnStep

LEMMA AllocStep ==
  ASSUME SmcInv, NEW c \in CPU, AllocAndRun(c)
  PROVE  CallInv'
<1> USE DEF SmcInv, CallInv
<1>1. CASE Refuse(c, Ebusy)
  BY <1>1, RefuseStep DEF AllocAndRun, IsAlloc
<1>2. CASE ~Refuse(c, Ebusy)
  <2>0. PICK t : t = First(Free)
    OBVIOUS
  <2>1. /\ at[c] = "recv" /\ r0[c] # Id["CALL_RETURN_FROM_RPC"]
        /\ Free # {} /\ StartCall(c, t, Guest)
        /\ at' = [at EXCEPT ![c] = "thread"]
        /\ origin' = [origin EXCEPT ![t] = who[c]] /\ a0' = [a0 EXCEPT ![t] = r0[c]]
        /\ UNCHANGED <<r0, r3, view, wide, saved, who>>
    BY <1>2, <2>0 DEF AllocAndRun, IsAlloc, CallerWaits
  <2>2. t \in Thread /\ st[t] = "FREE"
    BY <2>1, <2>0, FirstFree
  <2>3. /\ Run(c, t, Guest) /\ client' = [client EXCEPT ![t] = Guest]
        /\ st' = [st EXCEPT ![t] = "ACTIVE"]
    BY <2>1 DEF StartCall, Start, Run
  <2>4. NoThread(who[c]) /\ who[c] \in Caller /\ (Is64(r0[c]) <=> wide[who[c]])
    BY <2>1 DEF Underway, Serving
  <2>5. SmcType'
    BY <2>1, <2>2, <2>4 DEF SmcType
  <2>6. Own(t, who[c]) /\ \A s \in Thread \ {t} : Kept(s)
    <3>1. \A s \in Thread \ {t} : Kept(s)
      BY <2>1, <2>2, <2>3 DEF Kept, SmcType, DataInv, PoolType
    <3>2. origin'[t] = who[c] /\ client'[t] = Guest /\ a0'[t] = r0[c]
      BY <2>1, <2>2, <2>3 DEF SmcType, DataInv, PoolType
    <3>3. Held(t)' => ~wide[who[c]]
      BY <2>4, <3>2 DEF Held
    <3> QED BY <2>2, <2>4, <3>1, <3>2, <3>3 DEF Own
  <2>7. origin'[t] = who[c] /\ (Is64(a0'[t]) <=> wide[who[c]])
    BY <2>1, <2>2, <2>4 DEF SmcType
  <2> QED BY <2>1, <2>2, <2>3, <2>5, <2>6, <2>7, RunStep
<1> QED BY <1>1, <1>2

(* The number the caller hands back is that of its own thread.             *)
LEMMA ResumeStep ==
  ASSUME SmcInv, NEW c \in CPU, ResumeFromRpc(c)
  PROVE  CallInv'
<1> USE DEF SmcInv, CallInv
<1>1. CASE Refuse(c, Ebusy)
  BY <1>1, RefuseStep DEF ResumeFromRpc
<1>2. Suspended(who[c], r3[c]) /\ ~wide[who[c]] /\ at[c] = "recv" /\ CallerWaits
  BY DEF ResumeFromRpc, Underway
<1>3. CASE ~Refuse(c, Ebusy)
  <2>0. PICK t : t = r3[c]
    OBVIOUS
  <2>1. /\ t \in Thread /\ st[t] = "SUSPENDED" /\ origin[t] = who[c] /\ client[t] = Guest
        /\ Held(t) /\ ~Is64(a0[t]) /\ ~wide[who[c]]
    BY <1>2, <2>0 DEF Suspended, Held, Origins
  <2>2. /\ ResumeCall(c, t, Guest)
        /\ at' = [at EXCEPT ![c] = "thread"] /\ UNCHANGED <<r0, r3, a0, origin>>
    BY <1>3, <2>1, <2>0 DEF ResumeFromRpc, Resumable
  <2>3. /\ Run(c, t, Guest) /\ UNCHANGED client
        /\ st' = [st EXCEPT ![t] = "ACTIVE"]
    BY <2>2 DEF ResumeCall, Resume, Run
  <2>4. UNCHANGED <<view, wide, saved, who>>
    BY <1>2 DEF CallerWaits
  <2>5. SmcType'
    BY <2>2, <2>4 DEF SmcType
  <2>6. Own(t, who[c]) /\ \A s \in Thread \ {t} : Kept(s)
    <3>1. \A s \in Thread \ {t} : Kept(s)
      BY <2>1, <2>2, <2>3 DEF Kept, DataInv, PoolType
    <3> QED BY <2>1, <2>2, <2>3, <3>1 DEF Own, Held
  <2>7. origin'[t] = who[c] /\ (Is64(a0'[t]) <=> wide[who[c]])
    BY <2>1, <2>2
  <2> QED BY <1>2, <2>1, <2>2, <2>3, <2>4, <2>5, <2>6, <2>7, RunStep
<1> QED BY <1>1, <1>3

(* The core is done with its thread, for now or for good.                  *)
LEMMA StopStep ==
  ASSUME SmcInv, NEW c \in CPU, ThreadExit(c) \/ ThreadRpc(c)
  PROVE  CallInv'
<1> USE DEF SmcInv, CallInv
<1>1. at[c] = "thread" /\ core[c] # None /\ CallerWaits
  BY DEF ThreadExit, ThreadRpc
<1>0. PICK t \in Thread : t = core[c][1]
  BY <1>1 DEF DataInv, OneRuns
<1>2. /\ t \in Thread /\ st[t] = "ACTIVE" /\ origin[t] = who[c] /\ who[c] \in Caller
      /\ Is64(a0[t]) <=> wide[who[c]]
  BY <1>0, <1>1 DEF DataInv, OneRuns, Underway, Serving
<1>3. client[t] = Guest /\ \A s \in Thread \ {t} : Held(s) => origin[s] # who[c]
  <2>1. CASE wide[who[c]]
    BY <1>2, <2>1 DEF Origins, Waiting, NoThread
  <2>2. CASE ~wide[who[c]]
    BY <1>2, <2>2 DEF Origins, Held
  <2> QED BY <2>1, <2>2
<1>4. UNCHANGED <<view, wide, saved, who, client>>
  BY <1>1 DEF CallerWaits, ThreadExit, ThreadRpc, FinishCall, SuspendCall, Finish, Suspend, Stop
<1>5. core' = [core EXCEPT ![c] = None]
  BY DEF ThreadExit, ThreadRpc, FinishCall, SuspendCall, Finish, Suspend, Stop
<1>6. PICK w, n : /\ at' = [at EXCEPT ![c] = "answer"] /\ r0' = [r0 EXCEPT ![c] = w]
                  /\ r3' = [r3 EXCEPT ![c] = n]
                  /\ \/ /\ w \in {Ok, UnknownFunction}
                        /\ st' = [st EXCEPT ![t] = "FREE"]
                        /\ origin' = [origin EXCEPT ![t] = Nobody]
                        /\ a0' = [a0 EXCEPT ![t] = Ok]
                     \/ /\ IsRpc(w) /\ w # UnknownFunction /\ n = t
                        /\ st' = [st EXCEPT ![t] = "SUSPENDED"]
                        /\ origin' = origin /\ a0' = a0
  <2>1. CASE ThreadExit(c)
    <3>1. PICK w \in {Ok, UnknownFunction} : Answer(c, w)
      BY <2>1, Words DEF ThreadExit
    <3>2. PICK n : r3' = [r3 EXCEPT ![c] = n]
      BY <2>1 DEF ThreadExit
    <3> QED BY <1>0, <2>1, <3>1, <3>2 DEF ThreadExit, FinishCall, Finish, Stop, Answer
  <2>2. CASE ThreadRpc(c)
    <3>1. PICK f \in RpcFunc : Answer(c, RpcVal(f))
      BY <2>2 DEF ThreadRpc, Asks, RpcFunc
    <3>2. IsRpc(RpcVal(f)) /\ RpcVal(f) # UnknownFunction
      BY <3>1, Words
    <3> QED BY <1>0, <2>2, <3>1, <3>2 DEF ThreadRpc, SuspendCall, Suspend, Stop, Answer
  <2> QED BY <2>1, <2>2
<1>7. SmcType'
  BY <1>2, <1>4, <1>6 DEF SmcType
<1>8. Own(t, who[c]) /\ \A s \in Thread \ {t} : Kept(s)
  <2>1. \A s \in Thread \ {t} : Kept(s)
    BY <1>2, <1>4, <1>6 DEF Kept, SmcType, DataInv, PoolType
  <2>2. \/ st'[t] = "FREE"
        \/ st'[t] = "SUSPENDED" /\ origin'[t] = who[c] /\ a0'[t] = a0[t]
    BY <1>2, <1>6 DEF DataInv, PoolType
  <2>3. Held(t)' => Held(t)
    BY <1>2, <2>2 DEF Held
  <2>4. st'[t] # "FREE" => origin'[t] = who[c] /\ client'[t] = Guest
    BY <1>3, <1>4, <2>2
  <2> QED BY <1>2, <2>1, <2>3, <2>4 DEF Own
<1>9. /\ at'[c] = "answer" /\ r0'[c] = w /\ r3'[c] = n
      /\ \A d \in CPU \ {c} :
           at'[d] = at[d] /\ r0'[d] = r0[d] /\ r3'[d] = r3[d] /\ core'[d] = core[d]
  BY <1>5, <1>6 DEF SmcType, DataInv, PoolType
<1>10. Underway(c)'
  <2>1. CASE st' = [st EXCEPT ![t] = "FREE"] /\ w \in {Ok, UnknownFunction}
    <3>1. NoThread(who[c])'
      <4>1. st'[t] = "FREE" /\ \A s \in Thread \ {t} : Kept(s)
        BY <1>2, <1>8, <2>1 DEF DataInv, PoolType
      <4>2. UNCHANGED who
        BY <1>4
      <4> QED BY <1>3, <4>1, <4>2 DEF NoThread, Kept, Held
    <3> QED BY <1>9, <2>1, <3>1 DEF Underway
  <2>2. CASE /\ st' = [st EXCEPT ![t] = "SUSPENDED"] /\ origin' = origin /\ a0' = a0
             /\ IsRpc(w) /\ w # UnknownFunction /\ n = t
    <3>1. st'[t] = "SUSPENDED" /\ origin'[t] = who[c] /\ a0'[t] = a0[t]
      BY <1>2, <2>2 DEF DataInv, PoolType
    <3>2. wide[who[c]] \/ Suspended(who[c], t)'
      <4>1. CASE ~wide[who[c]]
        <5>1. Held(t)'
          BY <1>2, <3>1, <4>1 DEF Held
        <5> QED BY <1>2, <1>4, <3>1, <5>1 DEF Suspended
      <4> QED BY <4>1
    <3>3. wide'[who'[c]] = wide[who[c]] /\ who'[c] = who[c]
      BY <1>4
    <3>4. wide'[who'[c]] \/ Suspended(who[c], r3[c])'
      <4>1. CASE Suspended(who[c], t)'
        <5>1. r3'[c] = t
          BY <1>9, <2>2
        <5> QED BY <4>1, <5>1 DEF Suspended
      <4> QED BY <3>2, <3>3, <4>1
    <3> QED BY <1>9, <2>2, <3>4 DEF Underway
  <2> QED BY <1>6, <2>1, <2>2
<1> QED BY <1>1, <1>2, <1>4, <1>7, <1>8, <1>9, <1>10, OwnStep

LEMMA UntouchedStep ==
  ASSUME SmcInv, st' = st, client' = client, core' = core, at' = at, r0' = r0, r3' = r3,
         a0' = a0, view' = view, wide' = wide, saved' = saved, who' = who, origin' = origin
  PROVE  CallInv'
<1> USE DEF SmcInv, CallInv
<1>1. SmcType' /\ Serving' /\ Origins'
  BY DEF SmcType, Serving, Origins, Held
<1>2. Waiting'
  BY DEF Waiting, NoThread, Suspended, Held
<1>3. \A c \in CPU : Underway(c)'
  BY DEF Underway, NoThread, Suspended, Held
<1> QED BY <1>1, <1>2, <1>3

LEMMA SmcNextInv == SmcInv /\ [SmcNext]_vars => SmcInv'
<1> SUFFICES ASSUME SmcInv, [SmcNext]_vars PROVE SmcInv'
  OBVIOUS
<1>1. DataInv'
  BY StepsOfPool, NextInv DEF SmcInv
<1>2. ASSUME NEW c \in CPU, SetData(c) PROVE CallInv'
  BY <1>2, UntouchedStep DEF SetData, SetTsd, CallerWaits, pool
<1>3. ASSUME UNCHANGED vars PROVE CallInv'
  <2>1. /\ st' = st /\ client' = client /\ core' = core /\ at' = at /\ r0' = r0
        /\ r3' = r3 /\ a0' = a0 /\ view' = view /\ wide' = wide /\ saved' = saved
        /\ who' = who /\ origin' = origin
    BY <1>3 DEF vars, dataVars, pool
  <2> QED BY <2>1, UntouchedStep
<1>4. ASSUME SmcNext PROVE CallInv'
  <2>1. PICK c \in CPU :
          \/ \E u \in Caller : Call(c, u) \/ ReturnFromRpc(c, u)
          \/ TakeAnswer(c) \/ FastCall(c) \/ AllocAndRun(c) \/ ResumeFromRpc(c)
          \/ FastEntry(c) \/ ThreadExit(c) \/ ThreadRpc(c) \/ SetData(c)
    BY <1>4 DEF SmcNext
  <2>2. CASE \E u \in Caller : Call(c, u) \/ ReturnFromRpc(c, u)
    BY <2>2, IssueStep
  <2>3. CASE TakeAnswer(c) \/ FastCall(c) \/ AllocAndRun(c) \/ ResumeFromRpc(c)
    BY <2>3, AnswerStep, FastStep, AllocStep, ResumeStep
  <2>4. CASE FastEntry(c) \/ ThreadExit(c) \/ ThreadRpc(c) \/ SetData(c)
    BY <1>2, <2>4, FastStep, StopStep
  <2> QED BY <2>1, <2>2, <2>3, <2>4
<1> QED BY <1>1, <1>3, <1>4 DEF SmcInv

(* thread.c:153, entry.c:73: for any number of cores, threads and callers, *)
(* a core the dispatch sent to a thread serves its caller there, in the    *)
(* thread that has the caller's own call.                                  *)
THEOREM ServesOwnCallHolds == SmcSpec => []ServesOwnCall
<1>1. SmcInv => ServesOwnCall
  BY DEF SmcInv, CallInv, Underway, ServesOwnCall
<1> QED BY SmcInitInv, SmcNextInv, <1>1, PTL DEF SmcSpec

(* teesmc.h:472 and 528: a suspended 32 bit call is known to its caller    *)
(* under the right number, whatever the 64 bit calls leave behind, and no  *)
(* resumption is answered ERESUME.                                         *)
THEOREM NoCallLostHolds == SmcSpec => []NoCallLost
<1>1. SmcInv => NoCallLost
  <2> SUFFICES ASSUME SmcInv PROVE NoCallLost
    OBVIOUS
  <2> USE DEF SmcInv, CallInv
  <2>1. ASSUME NEW c \in CPU, at[c] = "answer" PROVE r0[c] # Eresume
    BY <2>1, Words DEF Underway
  <2>2. ASSUME NEW t \in Thread, st[t] = "SUSPENDED", ~Is64(a0[t]) PROVE KnownToCaller(t)
    <3> DEFINE u == origin[t]
    <3>1. u \in Caller /\ Held(t) /\ \A s \in Thread : Held(s) /\ origin[s] = u => s = t
      BY <2>2 DEF Origins, Held
    <3>2. (\A s : Suspended(u, s) => s = t) /\ ~NoThread(u)
      BY <3>1 DEF Suspended, NoThread
    <3>3. ~wide[u]
      BY <3>1, <3>2 DEF Waiting
    <3>4. CASE view[u] \in {"idle", "pending"}
      <4>1. view[u] = "pending" /\ Suspended(u, saved[u])
        BY <3>1, <3>2, <3>3, <3>4 DEF Waiting
      <4> QED BY <3>2, <4>1 DEF KnownToCaller
    <3>5. CASE view[u] \in {"calling", "resuming"}
      <4>1. PICK c \in CPU : at[c] # "nsec" /\ who[c] = u
        BY <3>1, <3>5 DEF Serving
      <4>2. ASSUME at[c] = "thread" PROVE FALSE
        <5>1. /\ core[c] # None /\ origin[core[c][1]] = u /\ ~Is64(a0[core[c][1]])
          BY <3>3, <4>1, <4>2 DEF Underway
        <5>2. core[c][1] \in Thread /\ st[core[c][1]] = "ACTIVE"
          BY <5>1 DEF DataInv, OneRuns
        <5> QED BY <2>2, <3>1, <5>1, <5>2 DEF Held
      <4>3. \/ view[u] = "resuming" /\ Suspended(u, saved[u])
            \/ at[c] = "answer" /\ IsRpc(r0[c]) /\ Suspended(u, r3[c])
        BY <3>2, <3>3, <4>1, <4>2 DEF Underway, SmcType
      <4> QED BY <3>2, <4>1, <4>3 DEF KnownToCaller
    <3> QED BY <3>1, <3>4, <3>5 DEF SmcType
  <2> QED BY <2>1, <2>2 DEF NoCallLost
<1> QED BY SmcInitInv, SmcNextInv, <1>1, PTL DEF SmcSpec

(* Whatever the interface does to the pool and the threads' data is a step *)
(* of ThreadData.                                                          *)
THEOREM ImplementsThreadData == SmcSpec => DataSpec
<1>1. SmcInit => DataInit
  BY DEF SmcInit
<1> QED BY StepsOfPool, <1>1, PTL DEF SmcSpec, DataSpec

(* thread.c:298: so what DataFollows says holds with callers, identifiers  *)
(* and return codes as well.                                               *)
THEOREM DataFollowsCalls == SmcSpec => []DataFollowsThread
BY DataFollows, ImplementsThreadData, PTL
================================================================================
