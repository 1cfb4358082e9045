--------------------------- MODULE TeeEntryProofs ---------------------------
(***************************************************************************)
(* Proofs about TeeEntry, for any number of calls and buffers.             *)
(***************************************************************************)
EXTENDS TeeEntry, TLAPS

Holding == {"alloc_done"} \cup Using

(* A thread with a buffer has its address where the code reads it, and the *)
(* allocator's books say so; nobody else is in the books.                  *)
HolderInv ==
  /\ \A t \in Call : pc[t] \in Holding /\ rv[t] # Null => owner[rv[t]] = t
  /\ \A t \in Call : pc[t] \in Using => phsmcarg[t] = rv[t]
  /\ \A x \in Buffer : owner[x] # None =>
       pc[owner[x]] \in Holding /\ rv[owner[x]] = x

(* What is in the buffer while the request and the answer are under way.   *)
ContentInv ==
  \A t \in Call : rv[t] # Null =>
    /\ pc[t] = "rpc_cmd" => mem[rv[t]] = [cmd |-> "request", ret |-> "zero"]
    /\ pc[t] = "cmd_done" => mem[rv[t]].ret = "answer"

(* The caller's structure is as sent until the result is written.          *)
ArgInv ==
  \A t \in Call :
    /\ pc[t] \notin {"return"} => arg[t] = sent[t]
    /\ pc[t] \in {"invoke", "rpc_alloc", "free_done"} \cup Holding =>
         sent[t].cmd = "INVOKE_COMMAND"

TeeInv == TypeOK /\ HolderInv /\ ContentInv /\ ArgInv /\ ResultStands
--------------------------------------------------------------------------------
(* The initial state satisfies the invariant.                              *)
LEMMA InitInv == Init => TeeInv
  <1> SUFFICES ASSUME Init PROVE TeeInv
    OBVIOUS
  <1> USE TeeAssumption DEF Init
  <1>1. TypeOK
    BY DEF TypeOK, Place, Ret, Fn, Arg, SmcArg, Blank, Scratch, Address, Cmd, Word, None
  <1>2. HolderInv /\ ContentInv /\ ArgInv /\ ResultStands
    BY DEF HolderInv, ContentInv, ArgInv, ResultStands, Holding, Using
  <1>3. QED
    BY <1>1, <1>2 DEF TeeInv

(* uint32_t addition stays in range.                                       *)
LEMMA AddWord == \A a, b \in Word : (a + b) % Width \in Word
  BY TeeAssumption, SMT DEF Word

(* The structure with the result in it is one.                             *)
LEMMA InvokedArg == \A m \in Arg : Invoked(m) \in Arg
  BY AddWord DEF Arg, Invoked

(* Finish keeps the types of what it writes.                               *)
LEMMA FinishTypes ==
  ASSUME TypeOK, NEW t \in Call, Finish(t)
  PROVE  arg' \in [Call -> Arg] /\ a0' \in [Call -> Fn \cup Ret]
  BY InvokedArg DEF TypeOK, Finish, Ret

(* Types.                                                                  *)
LEMMA TypeStep == TypeOK /\ [Next]_vars => TypeOK'
  <1> SUFFICES ASSUME TypeOK, [Next]_vars PROVE TypeOK'
    OBVIOUS
  <1> USE TeeAssumption DEF TypeOK, Place, Ret, Fn, Arg, SmcArg, Blank, Scratch, Address, Cmd, Word, None, Accepted
  <1>1. ASSUME NEW t \in Call, SendCall(t) PROVE TypeOK'
    BY <1>1 DEF SendCall, Goto
  <1>2. ASSUME NEW t \in Call, TakeResult(t) PROVE TypeOK'
    BY <1>2 DEF TakeResult, Goto
  <1>3. ASSUME NEW t \in Call, UnknownSmc(t) PROVE TypeOK'
    BY <1>3 DEF UnknownSmc, Goto, Answer
  <1>4. ASSUME NEW t \in Call, Dispatch(t) PROVE TypeOK'
    BY <1>4 DEF Dispatch, Goto, Answer
  <1>5. ASSUME NEW t \in Call, RpcAlloc(t) PROVE TypeOK'
    BY <1>5 DEF RpcAlloc, Goto
  <1>6. ASSUME NEW t \in Call, NwAlloc(t) PROVE TypeOK'
    <2>1. CASE \E x \in Buffer : owner[x] = None /\ owner' = [owner EXCEPT ![x] = t]
                                   /\ rv' = [rv EXCEPT ![t] = x]
      <3>1. PICK x \in Buffer : owner' = [owner EXCEPT ![x] = t] /\ rv' = [rv EXCEPT ![t] = x]
        BY <2>1
      <3>2. owner' \in [Buffer -> Call \cup {None}] /\ rv' \in [Call -> Address]
        BY <3>1
      <3>3. QED
        BY <1>6, <3>2 DEF NwAlloc, Goto
    <2>2. CASE rv' = [rv EXCEPT ![t] = Null] /\ UNCHANGED owner
      BY <1>6, <2>2 DEF NwAlloc, Goto
    <2>3. QED
      BY <1>6, <2>1, <2>2 DEF NwAlloc
  <1>7. ASSUME NEW t \in Call, RpcCmd(t) PROVE TypeOK'
    BY <1>7 DEF RpcCmd, Goto
  <1>8. ASSUME NEW t \in Call, NwCmd(t) PROVE TypeOK'
    BY <1>8 DEF NwCmd, Goto
  <1>9. ASSUME NEW t \in Call, RpcFree(t) PROVE TypeOK'
    BY <1>9 DEF RpcFree, Goto
  <1>10. ASSUME NEW t \in Call, NwFree(t) PROVE TypeOK'
    BY <1>10 DEF NwFree, Goto
  <1>11. ASSUME NEW t \in Call, Finish(t) PROVE TypeOK'
    <2>1. arg' \in [Call -> Arg] /\ a0' \in [Call -> Fn \cup Ret]
      BY <1>11, FinishTypes DEF TypeOK
    <2>2. pc' \in [Call -> Place] /\ \A u \in Call : pc'[u] = "return" => a0'[u] \in Ret
      BY <1>11 DEF Finish, Goto
    <2>3. QED
      BY <1>11, <2>1, <2>2 DEF Finish
  <1>12. ASSUME NEW t \in Call, Halt(t) PROVE TypeOK'
    BY <1>12 DEF Halt, Goto, vars
  <1>13. CASE UNCHANGED vars
    BY <1>13 DEF vars
  <1>14. QED
    BY <1>1, <1>2, <1>3, <1>4, <1>5, <1>6, <1>7, <1>8, <1>9, <1>10, <1>11, <1>12, <1>13 DEF Next, SecureStep, NwAnswer

(* The allocator's books and the threads' pointers agree.                  *)
LEMMA HolderStep == TypeOK /\ HolderInv /\ [Next]_vars => HolderInv'
  <1> SUFFICES ASSUME TypeOK /\ HolderInv, [Next]_vars PROVE HolderInv'
    OBVIOUS
  <1> USE TeeAssumption DEF TypeOK, HolderInv, Holding, Using, Address, None
  <1>1. ASSUME NEW t \in Call, SendCall(t) PROVE HolderInv'
    BY <1>1 DEF SendCall, Goto
  <1>2. ASSUME NEW t \in Call, TakeResult(t) PROVE HolderInv'
    BY <1>2 DEF TakeResult, Goto
  <1>3. ASSUME NEW t \in Call, UnknownSmc(t) PROVE HolderInv'
    BY <1>3 DEF UnknownSmc, Goto, Answer
  <1>4. ASSUME NEW t \in Call, Dispatch(t) PROVE HolderInv'
    BY <1>4 DEF Dispatch, Goto, Answer
  <1>5. ASSUME NEW t \in Call, RpcAlloc(t) PROVE HolderInv'
    BY <1>5 DEF RpcAlloc, Goto
  <1>6. ASSUME NEW t \in Call, NwAlloc(t) PROVE HolderInv'
    BY <1>6 DEF NwAlloc, Goto
  <1>7. ASSUME NEW t \in Call, RpcCmd(t) PROVE HolderInv'
    BY <1>7 DEF RpcCmd, Goto
  <1>8. ASSUME NEW t \in Call, NwCmd(t) PROVE HolderInv'
    BY <1>8 DEF NwCmd, Goto
  <1>9. ASSUME NEW t \in Call, RpcFree(t) PROVE HolderInv'
    BY <1>9 DEF RpcFree, Goto
  <1>10. ASSUME NEW t \in Call, NwFree(t) PROVE HolderInv'
    BY <1>10 DEF NwFree, Goto
  <1>11. ASSUME NEW t \in Call, Finish(t) PROVE HolderInv'
    BY <1>11 DEF Finish, Goto
  <1>12. ASSUME NEW t \in Call, Halt(t) PROVE HolderInv'
    BY <1>12 DEF Halt, Goto, vars
  <1>13. CASE UNCHANGED vars
    BY <1>13 DEF vars
  <1>14. QED
    BY <1>1, <1>2, <1>3, <1>4, <1>5, <1>6, <1>7, <1>8, <1>9, <1>10, <1>11, <1>12, <1>13 DEF Next, SecureStep, NwAnswer

(* No other call writes to the buffer of a call.                           *)
LEMMA ContentStep == TypeOK /\ HolderInv /\ ContentInv /\ [Next]_vars => ContentInv'
  <1> SUFFICES ASSUME TypeOK /\ HolderInv /\ ContentInv, [Next]_vars PROVE ContentInv'
    OBVIOUS
  <1> USE TeeAssumption DEF TypeOK, HolderInv, ContentInv, Holding, Using, Address, None, SmcArg
  <1>1. ASSUME NEW t \in Call, SendCall(t) PROVE ContentInv'
    BY <1>1 DEF SendCall, Goto
  <1>2. ASSUME NEW t \in Call, TakeResult(t) PROVE ContentInv'
    BY <1>2 DEF TakeResult, Goto
  <1>3. ASSUME NEW t \in Call, UnknownSmc(t) PROVE ContentInv'
    BY <1>3 DEF UnknownSmc, Goto, Answer
  <1>4. ASSUME NEW t \in Call, Dispatch(t) PROVE ContentInv'
    BY <1>4 DEF Dispatch, Goto, Answer
  <1>5. ASSUME NEW t \in Call, RpcAlloc(t) PROVE ContentInv'
    BY <1>5 DEF RpcAlloc, Goto
  <1>6. ASSUME NEW t \in Call, NwAlloc(t) PROVE ContentInv'
    BY <1>6 DEF NwAlloc, Goto
  <1>7. ASSUME NEW t \in Call, RpcCmd(t) PROVE ContentInv'
    BY <1>7 DEF RpcCmd, Goto
  <1>8. ASSUME NEW t \in Call, NwCmd(t) PROVE ContentInv'
    BY <1>8 DEF NwCmd, Goto
  <1>9. ASSUME NEW t \in Call, RpcFree(t) PROVE ContentInv'
    BY <1>9 DEF RpcFree, Goto
  <1>10. ASSUME NEW t \in Call, NwFree(t) PROVE ContentInv'
    BY <1>10 DEF NwFree, Goto
  <1>11. ASSUME NEW t \in Call, Finish(t) PROVE ContentInv'
    BY <1>11 DEF Finish, Goto
  <1>12. ASSUME NEW t \in Call, Halt(t) PROVE ContentInv'
    BY <1>12 DEF Halt, Goto, vars
  <1>13. CASE UNCHANGED vars
    BY <1>13 DEF vars
  <1>14. QED
    BY <1>1, <1>2, <1>3, <1>4, <1>5, <1>6, <1>7, <1>8, <1>9, <1>10, <1>11, <1>12, <1>13 DEF Next, SecureStep, NwAnswer

(* The argument structure is untouched until the result is written.        *)
LEMMA ArgStep == TypeOK /\ ArgInv /\ [Next]_vars => ArgInv'
  <1> SUFFICES ASSUME TypeOK /\ ArgInv, [Next]_vars PROVE ArgInv'
    OBVIOUS
  <1> USE TeeAssumption DEF TypeOK, ArgInv, Holding, Using
  <1>1. ASSUME NEW t \in Call, SendCall(t) PROVE ArgInv'
    BY <1>1 DEF SendCall, Goto
  <1>2. ASSUME NEW t \in Call, TakeResult(t) PROVE ArgInv'
    BY <1>2 DEF TakeResult, Goto
  <1>3. ASSUME NEW t \in Call, UnknownSmc(t) PROVE ArgInv'
    BY <1>3 DEF UnknownSmc, Goto, Answer
  <1>4. ASSUME NEW t \in Call, Dispatch(t) PROVE ArgInv'
    BY <1>4 DEF Dispatch, Goto, Answer
  <1>5. ASSUME NEW t \in Call, RpcAlloc(t) PROVE ArgInv'
    BY <1>5 DEF RpcAlloc, Goto
  <1>6. ASSUME NEW t \in Call, NwAlloc(t) PROVE ArgInv'
    BY <1>6 DEF NwAlloc, Goto
  <1>7. ASSUME NEW t \in Call, RpcCmd(t) PROVE ArgInv'
    BY <1>7 DEF RpcCmd, Goto
  <1>8. ASSUME NEW t \in Call, NwCmd(t) PROVE ArgInv'
    BY <1>8 DEF NwCmd, Goto
  <1>9. ASSUME NEW t \in Call, RpcFree(t) PROVE ArgInv'
    BY <1>9 DEF RpcFree, Goto
  <1>10. ASSUME NEW t \in Call, NwFree(t) PROVE ArgInv'
    BY <1>10 DEF NwFree, Goto
  <1>11. ASSUME NEW t \in Call, Finish(t) PROVE ArgInv'
    BY <1>11 DEF Finish, Goto
  <1>12. ASSUME NEW t \in Call, Halt(t) PROVE ArgInv'
    BY <1>12 DEF Halt, Goto, vars
  <1>13. CASE UNCHANGED vars
    BY <1>13 DEF vars
  <1>14. QED
    BY <1>1, <1>2, <1>3, <1>4, <1>5, <1>6, <1>7, <1>8, <1>9, <1>10, <1>11, <1>12, <1>13 DEF Next, SecureStep, NwAnswer

(* It is written once, by a successful invocation.                         *)
LEMMA ResultStep == TypeOK /\ ArgInv /\ ResultStands /\ [Next]_vars => ResultStands'
  <1> SUFFICES ASSUME TypeOK /\ ArgInv /\ ResultStands, [Next]_vars PROVE ResultStands'
    OBVIOUS
  <1> USE TeeAssumption DEF TypeOK, ArgInv, ResultStands, Holding
  <1>1. ASSUME NEW t \in Call, SendCall(t) PROVE ResultStands'
    <2>1. \A u \in Call : pc'[u] = "return" => u # t /\ pc[u] = "return"
      BY <1>1 DEF SendCall, Goto
    <2>2. \A u \in Call : u # t => arg'[u] = arg[u] /\ a0'[u] = a0[u] /\ sent'[u] = sent[u]
      BY <1>1 DEF SendCall
    <2>3. QED
      BY <2>1, <2>2
  <1>2. ASSUME NEW t \in Call, TakeResult(t) PROVE ResultStands'
    BY <1>2 DEF TakeResult, Goto
  <1>3. ASSUME NEW t \in Call, UnknownSmc(t) PROVE ResultStands'
    BY <1>3 DEF UnknownSmc, Goto, Answer
  <1>4. ASSUME NEW t \in Call, Dispatch(t) PROVE ResultStands'
    <2>1. arg[t] = sent[t] /\ UNCHANGED <<arg, sent>>
      BY <1>4 DEF Dispatch, Answer, Goto
    <2>2. pc'[t] = "return" => arg[t].cmd # "INVOKE_COMMAND"
      BY <1>4 DEF Dispatch, Answer, Goto
    <2>3. \A u \in Call : u # t => pc'[u] = pc[u] /\ a0'[u] = a0[u]
      BY <1>4 DEF Dispatch, Answer, Goto
    <2>4. QED
      BY <2>1, <2>2, <2>3
  <1>5. ASSUME NEW t \in Call, RpcAlloc(t) PROVE ResultStands'
    BY <1>5 DEF RpcAlloc, Goto
  <1>6. ASSUME NEW t \in Call, NwAlloc(t) PROVE ResultStands'
    BY <1>6 DEF NwAlloc, Goto
  <1>7. ASSUME NEW t \in Call, RpcCmd(t) PROVE ResultStands'
    BY <1>7 DEF RpcCmd, Goto
  <1>8. ASSUME NEW t \in Call, NwCmd(t) PROVE ResultStands'
    BY <1>8 DEF NwCmd, Goto
  <1>9. ASSUME NEW t \in Call, RpcFree(t) PROVE ResultStands'
    BY <1>9 DEF RpcFree, Goto
  <1>10. ASSUME NEW t \in Call, NwFree(t) PROVE ResultStands'
    BY <1>10 DEF NwFree, Goto
  <1>11. ASSUME NEW t \in Call, Finish(t) PROVE ResultStands'
    <2>1. arg[t] = sent[t] /\ sent[t].cmd = "INVOKE_COMMAND" /\ UNCHANGED sent
      BY <1>11 DEF Finish, Goto
    <2>2. pc'[t] = "return" => arg'[t] = Invoked(sent[t]) /\ a0'[t] = "OK"
      <3>1. pc'[t] = "return" => arg' = [arg EXCEPT ![t] = Invoked(arg[t])]
                                 /\ a0' = [a0 EXCEPT ![t] = "OK"]
        BY <1>11 DEF Finish, Goto
      <3>2. QED
        BY <2>1, <3>1
    <2>3. \A u \in Call : u # t => pc'[u] = pc[u] /\ arg'[u] = arg[u] /\ a0'[u] = a0[u]
      BY <1>11 DEF Finish, Goto
    <2>4. ASSUME pc'[t] = "return"
          PROVE  arg'[t] = [sent[t] EXCEPT !.ret = "zero", !.a = (sent[t].a + sent[t].b) % Width]
                 /\ sent'[t].cmd = "INVOKE_COMMAND" /\ a0'[t] = "OK"
      BY <2>1, <2>2, <2>4 DEF Invoked
    <2>5. SUFFICES ASSUME NEW u \in Call, pc'[u] = "return"
                   PROVE  arg'[u] = IF sent[u].cmd = "INVOKE_COMMAND" /\ a0'[u] = "OK"
                                    THEN [sent[u] EXCEPT !.ret = "zero",
                                            !.a = (sent[u].a + sent[u].b) % Width]
                                    ELSE sent[u]
      BY <2>1
    <2>6. CASE u = t
      BY <2>1, <2>4, <2>5, <2>6
    <2>7. CASE u # t
      BY <2>3, <2>5, <2>7
    <2>8. QED
      BY <2>6, <2>7
  <1>12. ASSUME NEW t \in Call, Halt(t) PROVE ResultStands'
    BY <1>12 DEF Halt, Goto, vars
  <1>13. CASE UNCHANGED vars
    BY <1>13 DEF vars
  <1>14. QED
    BY <1>1, <1>2, <1>3, <1>4, <1>5, <1>6, <1>7, <1>8, <1>9, <1>10, <1>11, <1>12, <1>13 DEF Next, SecureStep, NwAnswer

(* The inductive invariant.                                                *)
THEOREM TeeInvariant == Spec => []TeeInv
  <1>1. TeeInv /\ [Next]_vars => TeeInv'
    BY TypeStep, HolderStep, ContentStep, ArgStep, ResultStep DEF TeeInv
  <1>2. QED
    BY InitInv, <1>1, PTL DEF Spec

(* Types, and every call returns with a return code.                       *)
THEOREM TeeTypes == Spec => []TypeOK
  <1>1. TeeInv => TypeOK
    BY TeeAssumption DEF TeeInv
  <1>2. QED
    BY TeeInvariant, <1>1, PTL

(* tee_invoke() uses memory allocated for its call, however many calls     *)
(* are under way.                                                          *)
THEOREM BufferOwned == Spec => []OwnsBuffer
  <1>1. TeeInv => OwnsBuffer
    BY TeeAssumption DEF TeeInv, HolderInv, Holding, Using, OwnsBuffer
  <1>2. QED
    BY TeeInvariant, <1>1, PTL

(* Requests and answers are not mixed up between calls.                    *)
THEOREM RequestsArrive == Spec => []RequestAndAnswer
  <1>1. TeeInv => RequestAndAnswer
    BY TeeAssumption DEF TeeInv, HolderInv, ContentInv, Holding, Using, RequestAndAnswer
  <1>2. QED
    BY TeeInvariant, <1>1, PTL

(* A call that has returned holds no buffer.                               *)
THEOREM NoLeaks == Spec => []NothingLeaks
  <1>1. TeeInv => NothingLeaks
    BY TeeAssumption DEF TeeInv, HolderInv, Holding, Using, NothingLeaks, TypeOK, None
  <1>2. QED
    BY TeeInvariant, <1>1, PTL

(* The caller finds the sum, or what it sent.                              *)
THEOREM ResultHolds == Spec => []ResultStands
  <1>1. TeeInv => ResultStands
    BY TeeAssumption DEF TeeInv
  <1>2. QED
    BY TeeInvariant, <1>1, PTL
================================================================================
