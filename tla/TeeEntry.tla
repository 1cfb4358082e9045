------------------------------- MODULE TeeEntry -------------------------------
(***************************************************************************)
(* The calls into the trusted OS (tee/entry.c) and their RPCs              *)
(* (thread_rpc_alloc, _cmd and _free of kern/thread.c), as seen by a       *)
(* non-secure world that answers each request.  Every call runs in a       *)
(* thread of its own; their steps interleave, and the argument structures  *)
(* and the buffers they allocate lie in one memory.  An RPC is two steps:  *)
(* the thread leaves its request, and the non-secure world answers it.     *)
(* Fast calls reach the same code; the one command in which they differ,   *)
(* an invocation, is the business of Threads.                              *)
(***************************************************************************)
EXTENDS Naturals

CONSTANTS Call,       \* the calls that may be under way, one per thread
          Buffer,     \* addresses the non-secure world allocates from
          Null,       \* address 0
          Width,      \* number of values of a uint32_t
          NumParams,  \* values of num_params the callers use
          AllocFails  \* BOOLEAN: the non-secure world may run out of memory

None == "none"
Cmd == {"OPEN_SESSION", "CLOSE_SESSION", "INVOKE_COMMAND", "CANCEL", "unknown"}
Fn == {"CALL_WITH_ARG", "FASTCALL_WITH_ARG", "other"}
Ret == {"OK", "UNKNOWN_FUNCTION"}
Word == 0 .. Width - 1
Address == Buffer \cup {Null}

ASSUME TeeAssumption ==
  /\ Width \in Nat \ {0}
  /\ NumParams \subseteq Nat
  /\ AllocFails \in BOOLEAN
  /\ Null \notin Buffer
  /\ None \notin Call

(* struct teesmc32_arg with the value of its first parameter; ret and      *)
(* ret_origin are set together                                             *)
Arg == [cmd : Cmd, num_params : NumParams \cup {0}, a : Word, b : Word, ret : {"unset", "zero"}]

(* A buffer seen as struct teesmc32_arg: the command, and whether the      *)
(* non-secure world has filled in ret                                      *)
SmcArg == [cmd : {"any", "zero", "request"}, ret : {"any", "zero", "answer"}]

(* no call under way: what the caller's memory holds then does not matter  *)
Blank == [cmd |-> "unknown", num_params |-> 0, a |-> 0, b |-> 0, ret |-> "unset"]
Scratch == [cmd |-> "any", ret |-> "any"]

VARIABLES
  pc,       \* where the thread of a call is
  a0,       \* args->a0 of the call
  arg,      \* its argument structure
  phsmcarg, \* its local variable
  rv,       \* rpc_args[1] of the RPC under way
  mem,      \* the buffers
  owner,    \* the non-secure world's allocator: whose request got the buffer
  sent      \* history: the argument structure as the caller sent it

vars == <<pc, a0, arg, phsmcarg, rv, mem, owner, sent>>

Place == {"client", "entry", "invoke", "rpc_alloc", "alloc_done", "rpc_cmd",
          "cmd_done", "rpc_free", "free_done", "return", "halt"}

Init ==
  /\ pc = [t \in Call |-> "client"]
  /\ a0 = [t \in Call |-> "OK"]
  /\ arg = [t \in Call |-> Blank]
  /\ phsmcarg = [t \in Call |-> Null]
  /\ rv = [t \in Call |-> Null]
  /\ mem = [x \in Address |-> Scratch]
  /\ owner = [x \in Buffer |-> None]
  /\ sent = arg

Goto(t, from, to) == pc[t] = from /\ pc' = [pc EXCEPT ![t] = to]

(***************************************************************************)
(* The caller                                                              *)
(***************************************************************************)
SendCall(t) ==
  /\ Goto(t, "client", "entry")
  /\ \E f \in Fn : a0' = [a0 EXCEPT ![t] = f]
  /\ \E c \in Cmd, n \in NumParams, a, b \in Word :
       LET m == [cmd |-> c, num_params |-> n, a |-> a, b |-> b, ret |-> "unset"]
       IN  arg' = [arg EXCEPT ![t] = m] /\ sent' = [sent EXCEPT ![t] = m]
  /\ UNCHANGED <<phsmcarg, rv, mem, owner>>

TakeResult(t) ==
  /\ Goto(t, "return", "client")
  /\ a0' = [a0 EXCEPT ![t] = "OK"]
  /\ arg' = [arg EXCEPT ![t] = Blank]
  /\ sent' = [sent EXCEPT ![t] = Blank]
  /\ UNCHANGED <<phsmcarg, rv, mem, owner>>

(***************************************************************************)
(* tee_entry                                                               *)
(***************************************************************************)
Answer(t, r) ==
  /\ Goto(t, "entry", "return")
  /\ a0' = [a0 EXCEPT ![t] = r]

Accepted(t) == a0[t] \in {"CALL_WITH_ARG", "FASTCALL_WITH_ARG"}

UnknownSmc(t) ==
  /\ ~Accepted(t)
  /\ Answer(t, "UNKNOWN_FUNCTION")
  /\ UNCHANGED <<arg, phsmcarg, rv, mem, owner, sent>>

(* Mutant: TEESMC_CMD_CLOSE_SESSION has no break.                          *)
Dispatch_FallThrough(t) ==
  /\ Accepted(t)
  /\ \/ /\ arg[t].cmd \in {"OPEN_SESSION", "CANCEL"}
        /\ Answer(t, "OK")
     \/ /\ arg[t].cmd \in {"CLOSE_SESSION", "INVOKE_COMMAND"}
        /\ Goto(t, "entry", "invoke")
        /\ UNCHANGED a0
     \/ /\ arg[t].cmd = "unknown"
        /\ Answer(t, "UNKNOWN_FUNCTION")
  /\ UNCHANGED <<arg, phsmcarg, rv, mem, owner, sent>>

Dispatch(t) ==
  /\ Accepted(t)
  /\ \/ /\ arg[t].cmd \in {"OPEN_SESSION", "CLOSE_SESSION", "CANCEL"}
        /\ Answer(t, "OK")
     \/ /\ arg[t].cmd = "INVOKE_COMMAND"
        /\ Goto(t, "entry", "invoke")
        /\ UNCHANGED a0
     \/ /\ arg[t].cmd = "unknown"
        /\ Answer(t, "UNKNOWN_FUNCTION")
  /\ UNCHANGED <<arg, phsmcarg, rv, mem, owner, sent>>

(***************************************************************************)
(* tee_invoke and the non-secure world's answers                           *)
(***************************************************************************)
(* thread_rpc_alloc(sizeof(struct teesmc32_arg), 0, &phsmcarg, NULL)       *)
RpcAlloc(t) ==
  /\ Goto(t, "invoke", "rpc_alloc")
  /\ UNCHANGED <<a0, arg, phsmcarg, rv, mem, owner, sent>>

NwAlloc(t) ==
  /\ Goto(t, "rpc_alloc", "alloc_done")
  /\ \/ \E x \in Buffer :
          /\ owner[x] = None
          /\ owner' = [owner EXCEPT ![x] = t]
          /\ rv' = [rv EXCEPT ![t] = x]
     \/ /\ AllocFails
        /\ rv' = [rv EXCEPT ![t] = Null]
        /\ UNCHANGED owner
  /\ UNCHANGED <<a0, arg, phsmcarg, mem, sent>>

(* Mutant: cmd is set before the structure is cleared.                     *)
RpcCmd_LateMemset(t) ==
  LET smcarg == rv[t]
  IN  /\ Goto(t, "alloc_done", "rpc_cmd")
      /\ phsmcarg' = [phsmcarg EXCEPT ![t] = smcarg]
      /\ mem' = [mem EXCEPT ![smcarg] = [cmd |-> "zero", ret |-> "zero"]]
      /\ UNCHANGED <<a0, arg, rv, owner, sent>>

(* *arg = rpc_args[1]; memset; smcarg->cmd = 0x12345; thread_rpc_cmd       *)
RpcCmd(t) ==
  LET smcarg == rv[t]
  IN  /\ Goto(t, "alloc_done", "rpc_cmd")
      /\ phsmcarg' = [phsmcarg EXCEPT ![t] = smcarg]
      /\ mem' = [mem EXCEPT ![smcarg] = [cmd |-> "request", ret |-> "zero"]]
      /\ UNCHANGED <<a0, arg, rv, owner, sent>>

NwCmd(t) ==
  /\ Goto(t, "rpc_cmd", "cmd_done")
  /\ mem' = [mem EXCEPT ![rv[t]].ret = "answer"]
  /\ UNCHANGED <<a0, arg, phsmcarg, rv, owner, sent>>

(* Mutant: argument and payload pointer exchanged.                         *)
RpcFree_Exchanged(t) ==
  /\ Goto(t, "cmd_done", "rpc_free")
  /\ rv' = [rv EXCEPT ![t] = Null]
  /\ UNCHANGED <<a0, arg, phsmcarg, mem, owner, sent>>

(* thread_rpc_free(phsmcarg, 0), after smcarg->ret has been read           *)
RpcFree(t) ==
  /\ Goto(t, "cmd_done", "rpc_free")
  /\ rv' = [rv EXCEPT ![t] = phsmcarg[t]]
  /\ UNCHANGED <<a0, arg, phsmcarg, mem, owner, sent>>

NwFree(t) ==
  /\ Goto(t, "rpc_free", "free_done")
  /\ owner' = [x \in Buffer |-> IF x = rv[t] THEN None ELSE owner[x]]
  /\ mem' = [mem EXCEPT ![rv[t]] = Scratch]
  /\ rv' = [rv EXCEPT ![t] = Null]
  /\ UNCHANGED <<a0, arg, phsmcarg, sent>>

(* arg32->ret, ret_origin and params[0].value.a                            *)
Invoked(m) == [m EXCEPT !.ret = "zero", !.a = (m.a + m.b) % Width]

(* Mutant: num_params > 1.                                                 *)
Finish_OffByOne(t) ==
  /\ IF arg[t].num_params > 1
     THEN /\ Goto(t, "free_done", "return")
          /\ arg' = [arg EXCEPT ![t] = Invoked(@)]
          /\ a0' = [a0 EXCEPT ![t] = "OK"]
     ELSE Goto(t, "free_done", "halt") /\ UNCHANGED <<arg, a0>>
  /\ phsmcarg' = [phsmcarg EXCEPT ![t] = Null]
  /\ UNCHANGED <<rv, mem, owner, sent>>

(* assert(arg32->num_params > 0); the result; args->a0 of tee_entry        *)
Finish(t) ==
  /\ \/ /\ arg[t].num_params > 0
        /\ Goto(t, "free_done", "return")
        /\ arg' = [arg EXCEPT ![t] = Invoked(@)]
        /\ a0' = [a0 EXCEPT ![t] = "OK"]
     \/ /\ ~(arg[t].num_params > 0)
        /\ Goto(t, "free_done", "halt")
        /\ UNCHANGED <<arg, a0>>
  /\ phsmcarg' = [phsmcarg EXCEPT ![t] = Null]
  /\ UNCHANGED <<rv, mem, owner, sent>>

(* __assert() spins                                                        *)
Halt(t) == pc[t] = "halt" /\ UNCHANGED vars

SecureStep(t) ==
  \/ UnknownSmc(t) \/ Dispatch(t) \/ RpcAlloc(t) \/ RpcCmd(t) \/ RpcFree(t) \/ Finish(t)

NwAnswer(t) == NwAlloc(t) \/ NwCmd(t) \/ NwFree(t)

Next == \E t \in Call : SecureStep(t) \/ NwAnswer(t) \/ SendCall(t) \/ TakeResult(t) \/ Halt(t)

Fairness == \A t \in Call : WF_vars(SecureStep(t)) /\ WF_vars(NwAnswer(t))

Spec == Init /\ [][Next]_vars /\ Fairness

(***************************************************************************)
(* Properties                                                              *)
(***************************************************************************)
(* Types; a call comes back with a return code in r0.                      *)
TypeOK ==
  /\ pc \in [Call -> Place]
  /\ a0 \in [Call -> Fn \cup Ret]
  /\ \A t \in Call : pc[t] = "return" => a0[t] \in Ret
  /\ arg \in [Call -> Arg]
  /\ phsmcarg \in [Call -> Address]
  /\ rv \in [Call -> Address]
  /\ mem \in [Address -> SmcArg]
  /\ owner \in [Buffer -> Call \cup {None}]
  /\ sent \in [Call -> Arg]

(* From its first write to the buffer until it gives it back, tee_invoke   *)
(* works on memory that was allocated for this call (entry.c:43-54), if    *)
(* it was given any.                                                       *)
Using == {"rpc_cmd", "cmd_done", "rpc_free"}
OwnsBuffer ==
  \A t \in Call :
    pc[t] \in Using /\ phsmcarg[t] # Null => owner[phsmcarg[t]] = t

(* The non-secure world finds this call's request in the structure, and    *)
(* the thread the answer to it, whatever other calls do.                   *)
RequestAndAnswer ==
  \A t \in Call : phsmcarg[t] # Null =>
    /\ pc[t] = "rpc_cmd" => mem[rv[t]] = [cmd |-> "request", ret |-> "zero"]
    /\ pc[t] = "cmd_done" => mem[phsmcarg[t]].ret = "answer"

(* A call that has returned holds no memory of the non-secure world.       *)
NothingLeaks ==
  \A t \in Call : pc[t] \in {"return", "client"} =>
    \A x \in Buffer : owner[x] # t

(* What the caller finds in its argument structure: after an invocation    *)
(* that succeeded the sum, added once, modulo 2^32; else what it sent.     *)
ResultStands ==
  \A t \in Call : pc[t] = "return" =>
    arg[t] = IF sent[t].cmd = "INVOKE_COMMAND" /\ a0[t] = "OK"
             THEN [sent[t] EXCEPT !.ret = "zero", !.a = (sent[t].a + sent[t].b) % Width]
             ELSE sent[t]

(* Every call returns when its requests are answered; one with parameters  *)
(* does not run into the assertion of entry.c:57.                          *)
CallReturns ==
  \A t \in Call :
    pc[t] = "entry" ~> pc[t] = "return" \/ (pc[t] = "halt" /\ sent[t].num_params = 0)

================================================================================
