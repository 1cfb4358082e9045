---------------------------------- MODULE Smc ----------------------------------
(***************************************************************************)
(* The SMC interface: the function identifiers and return codes of         *)
(* sm/teesmc.h, the dispatch by thread_recv_smc_call and                   *)
(* thread_handle_smc_call(), the identifiers tee_entry() takes, on top of  *)
(* the pool of threads and their data (ThreadData), and the callers of one *)
(* guest, who follow teesmc.h but look for UNKNOWN_FUNCTION before they    *)
(* test for an RPC.  A word is its two halves.  Who calls matters only     *)
(* through what r0 and r3 say: the same client id is in everybody's r7.    *)
(***************************************************************************)
EXTENDS ThreadData

CONSTANTS Caller,   \* processes of the guest
          Number    \* values of r3 that occur in a call that does not use it

Nobody == "nobody"
Guest == CHOOSE k \in Clnt : TRUE

ASSUME SmcAssumption ==
  /\ Thread \subseteq Number /\ Number \subseteq Nat
  /\ 0 \in Thread
  /\ Clnt # {}
  /\ None \notin Thread \X Clnt
  /\ Nobody \notin Caller

(***************************************************************************)
(* Words                                                                   *)
(***************************************************************************)
Std == 0
Fast == 32768     \* bit 31 of the word
Conv32 == 0
Conv64 == 16384   \* bit 30

CallVal(type, conv, owner, func) ==
  <<type + conv + (owner % 64) * 256, func % 65536>>

IsFastCall(w) == w[1] >= Fast
Is64(w) == w[1] % Fast >= Conv64

TrustedOs == 50
TrustedOsApi == 63

Id ==
  [CALL_WITH_ARG              |-> CallVal(Std, Conv32, TrustedOs, 2),
   FASTCALL_WITH_ARG          |-> CallVal(Fast, Conv32, TrustedOs, 2),
   CALL64_WITH_ARG            |-> CallVal(Std, Conv64, TrustedOs, 2),
   FASTCALL64_WITH_ARG        |-> CallVal(Fast, Conv64, TrustedOs, 2),
   CALL_RETURN_FROM_RPC       |-> CallVal(Std, Conv32, TrustedOs, 3),
   FASTCALL_RETURN_FROM_RPC   |-> CallVal(Std, Conv32, TrustedOs, 3),
   CALL64_RETURN_FROM_RPC     |-> CallVal(Std, Conv64, TrustedOs, 3),
   FASTCALL64_RETURN_FROM_RPC |-> CallVal(Std, Conv64, TrustedOs, 3),
   CALLS_COUNT                |-> CallVal(Fast, Conv32, TrustedOsApi, 65280),
   GET_OS_REVISION            |-> CallVal(Fast, Conv32, TrustedOs, 1)]

Resumes32 == {"CALL_RETURN_FROM_RPC", "FASTCALL_RETURN_FROM_RPC"}
Resumes64 == {"CALL64_RETURN_FROM_RPC", "FASTCALL64_RETURN_FROM_RPC"}
Resumes == Resumes32 \cup Resumes64

Ok == <<0, 0>>
Ebusy == <<0, 1>>
Eresume == <<0, 2>>
UnknownFunction == <<65535, 65535>>

(* Mutant: the prefix is forgotten.                                        *)
RpcVal_NoPrefix(func) == <<0, func>>

RpcVal(func) == <<65535, func>>

IsRpc(w) == w[1] = 65535

RpcFunc == 0 .. 3   \* ALLOC, FREE, IRQ, CMD

(***************************************************************************)
(* State                                                                   *)
(***************************************************************************)
VARIABLES
  at,     \* at[c]: "nsec", "recv", "fast", "thread" or "answer"
  r0, r3, \* registers of core c
  a0,     \* a0[t]: the identifier thread t was started with
  view,   \* what a caller knows of its call
  wide,   \* whether that is a 64 bit call
  saved,  \* the r3 it has to resume its call with
  who,    \* history: the caller core c serves
  origin  \* history: whose call thread t is

vars == <<dataVars, at, r0, r3, a0, view, wide, saved, who, origin>>

SmcInit ==
  /\ DataInit
  /\ at = [c \in CPU |-> "nsec"]
  /\ r0 = [c \in CPU |-> Ok]
  /\ r3 = [c \in CPU |-> 0]
  /\ a0 = [t \in Thread |-> Ok]
  /\ view = [u \in Caller |-> "idle"]
  /\ wide = [u \in Caller |-> FALSE]
  /\ saved = [u \in Caller |-> 0]
  /\ who = [c \in CPU |-> Nobody]
  /\ origin = [t \in Thread |-> Nobody]

(***************************************************************************)
(* The callers                                                             *)
(***************************************************************************)
Issue(c, u, f, from, to) ==
  /\ at[c] = "nsec" /\ view[u] = from
  /\ at' = [at EXCEPT ![c] = "recv"]
  /\ r0' = [r0 EXCEPT ![c] = Id[f]]
  /\ view' = [view EXCEPT ![u] = to]
  /\ wide' = [wide EXCEPT ![u] = Is64(Id[f])]
  /\ who' = [who EXCEPT ![c] = u]
  /\ UNCHANGED <<dataVars, a0, saved, origin>>

Call(c, u) ==
  /\ \E f \in DOMAIN Id \ Resumes : Issue(c, u, f, "idle", "calling")
  /\ \E n \in Number : r3' = [r3 EXCEPT ![c] = n]

(* r1-3: "Value of r1-3 when TEESMC32_CALL_WITH_ARG returned"; the 64 bit  *)
(* identifiers are "used when it's a 64bit call that has returned".        *)
ReturnFromRpc(c, u) ==
  /\ \E f \in IF wide[u] THEN Resumes64 ELSE Resumes32 : Issue(c, u, f, "pending", "resuming")
  /\ r3' = [r3 EXCEPT ![c] = saved[u]]

(* A refused resume may be tried again; anything else that is not an RPC   *)
(* ends the call.  What is left in the registers then is nobody's.         *)
TakeAnswer(c) ==
  LET u == who[c]
      rpc == IsRpc(r0[c]) /\ r0[c] # UnknownFunction
      retry == view[u] = "resuming" /\ r0[c] = Ebusy
  IN  /\ at[c] = "answer"
      /\ at' = [at EXCEPT ![c] = "nsec"]
      /\ view' = [view EXCEPT ![u] = IF rpc \/ retry THEN "pending" ELSE "idle"]
      /\ wide' = [wide EXCEPT ![u] = @ /\ (rpc \/ retry)]
      /\ saved' = [saved EXCEPT ![u] = IF rpc THEN r3[c] ELSE @]
      /\ who' = [who EXCEPT ![c] = Nobody]
      /\ r0' = [r0 EXCEPT ![c] = Ok]
      /\ r3' = [r3 EXCEPT ![c] = 0]
      /\ UNCHANGED <<dataVars, a0, origin>>

(***************************************************************************)
(* thread_handle_smc_call()                                                *)
(***************************************************************************)
Answer(c, w) ==
  /\ at' = [at EXCEPT ![c] = "answer"]
  /\ r0' = [r0 EXCEPT ![c] = w]

CallerWaits == UNCHANGED <<view, wide, saved, who>>

(* a1 to a3 are zeroed                                                     *)
Refuse(c, w) ==
  /\ Answer(c, w)
  /\ r3' = [r3 EXCEPT ![c] = 0]
  /\ UNCHANGED <<dataVars, a0, origin>>

FastCall(c) ==
  /\ at[c] = "recv" /\ IsFastCall(r0[c])
  /\ at' = [at EXCEPT ![c] = "fast"]
  /\ CallerWaits /\ UNCHANGED <<dataVars, r0, r3, a0, origin>>

Free == {t \in Thread : st[t] = "FREE"}
First(S) == CHOOSE t \in S : \A u \in S : t <= u

IsAlloc(c) ==
  at[c] = "recv" /\ ~IsFastCall(r0[c]) /\ r0[c] # Id["CALL_RETURN_FROM_RPC"]

(* The 64 bit identifier for a resumption comes here as well.              *)
AllocAndRun(c) ==
  /\ IsAlloc(c) /\ CallerWaits
  /\ \/ /\ NoneActive /\ Free # {}
        /\ StartCall(c, First(Free), Guest)
        /\ at' = [at EXCEPT ![c] = "thread"]
        /\ a0' = [a0 EXCEPT ![First(Free)] = r0[c]]
        /\ origin' = [origin EXCEPT ![First(Free)] = who[c]]
        /\ UNCHANGED <<r0, r3>>
     \/ ~(NoneActive /\ Free # {}) /\ Refuse(c, Ebusy)

Resumable(n) == n \in Thread /\ st[n] = "SUSPENDED" /\ client[n] = Guest

ResumeFromRpc(c) ==
  /\ at[c] = "recv" /\ ~IsFastCall(r0[c]) /\ r0[c] = Id["CALL_RETURN_FROM_RPC"]
  /\ CallerWaits
  /\ \/ ~NoneActive /\ Refuse(c, Ebusy)
     \/ NoneActive /\ ~Resumable(r3[c]) /\ Refuse(c, Eresume)
     \/ /\ Resumable(r3[c]) /\ ResumeCall(c, r3[c], Guest)
        /\ at' = [at EXCEPT ![c] = "thread"]
        /\ UNCHANGED <<r0, r3, a0, origin>>

(***************************************************************************)
(* tee_entry(): "OK" or, for a command it does not know, UNKNOWN_FUNCTION  *)
(***************************************************************************)
TeeEntry(w) ==
  IF w \in {Id["CALL_WITH_ARG"], Id["FASTCALL_WITH_ARG"]}
  THEN {Ok, UnknownFunction} ELSE {UnknownFunction}

(* An invocation as a fast call does not get here: see Threads.            *)
FastEntry(c) ==
  /\ at[c] = "fast"
  /\ \E w \in TeeEntry(r0[c]) : Answer(c, w)
  /\ CallerWaits /\ UNCHANGED <<dataVars, r3, a0, origin>>

(* thread_exit: the handler's answer in r0, and r1-r3 as the call brought  *)
(* them, which may be anything                                             *)
ThreadExit(c) ==
  /\ at[c] = "thread" /\ core[c] # None
  /\ FinishCall(c)
  /\ \E w \in TeeEntry(a0[core[c][1]]) : Answer(c, w)
  /\ \E n \in Number : r3' = [r3 EXCEPT ![c] = n]
  /\ a0' = [a0 EXCEPT ![core[c][1]] = Ok]
  /\ origin' = [origin EXCEPT ![core[c][1]] = Nobody]
  /\ CallerWaits

(* What the thread may ask for: an IRQ's service at any time, the rest in  *)
(* an invocation.                                                          *)
Asks(t) == IF a0[t] = Id["CALL_WITH_ARG"] THEN RpcFunc ELSE {2}

(* Mutant: "mov r3, r0" is missing.                                        *)
ThreadRpc_NoIndex(c) ==
  /\ at[c] = "thread" /\ core[c] # None
  /\ SuspendCall(c)
  /\ \E f \in Asks(core[c][1]) : Answer(c, RpcVal(f))
  /\ CallerWaits /\ UNCHANGED <<r3, a0, origin>>

ThreadRpc(c) ==
  /\ at[c] = "thread" /\ core[c] # None
  /\ SuspendCall(c)
  /\ \E f \in Asks(core[c][1]) : Answer(c, RpcVal(f))
  /\ r3' = [r3 EXCEPT ![c] = core[c][1]]
  /\ CallerWaits /\ UNCHANGED <<a0, origin>>

(* The thread has something to remember.                                   *)
SetData(c) ==
  /\ at[c] = "thread"
  /\ \E p \in Data : SetTsd(c, p)
  /\ CallerWaits /\ UNCHANGED <<at, r0, r3, a0, origin>>

SmcNext == \E c \in CPU :
  \/ \E u \in Caller : Call(c, u) \/ ReturnFromRpc(c, u)
  \/ TakeAnswer(c) \/ FastCall(c) \/ AllocAndRun(c) \/ ResumeFromRpc(c)
  \/ FastEntry(c) \/ ThreadExit(c) \/ ThreadRpc(c) \/ SetData(c)

SmcSpec == SmcInit /\ [][SmcNext]_vars

(***************************************************************************)
(* Properties                                                              *)
(***************************************************************************)
(* thread.c:153, entry.c:73: whatever identifiers are used, known or not,  *)
(* a core the dispatch sent to a thread serves its caller there, in the    *)
(* thread that has the caller's own call.                                  *)
ServesOwnCall == \A c \in CPU :
  at[c] = "thread" => core[c] # None /\ origin[core[c][1]] = who[c]

(* A suspended call is known to its caller as suspended, under the right   *)
(* number, or that answer is just being given.                             *)
KnownToCaller(t) ==
  \/ view[origin[t]] \in {"pending", "resuming"} /\ saved[origin[t]] = t
  \/ \E c \in CPU : /\ at[c] = "answer" /\ who[c] = origin[t]
                    /\ IsRpc(r0[c]) /\ r3[c] = t

(* teesmc.h:472 and 528: no 32 bit call that is suspended is left behind,  *)
(* and a resumption is never answered ERESUME, since the callers hand back *)
(* what they were given.  Threads of 64 bit calls that are left behind     *)
(* take slots away, but no 32 bit call is lost through them.               *)
NoCallLost ==
  /\ \A t \in Thread : st[t] = "SUSPENDED" /\ ~Is64(a0[t]) => KnownToCaller(t)
  /\ \A c \in CPU : ~(at[c] = "answer" /\ r0[c] = Eresume)

(* teesmc.h:541-544: the same for every call, the 64 bit ones that are     *)
(* resumed with the identifier for them included.                          *)
NoCallLost64 == \A t \in Thread : st[t] = "SUSPENDED" => KnownToCaller(t)
================================================================================
