---------------------------- MODULE ADEventProofs ----------------------------
(***************************************************************************)
(* Proofs about ADEvent and ADAnomalyProvenance, for every number of        *)
(* threads, calls and correlation IDs and every window size.  Where a       *)
(* theorem needs that kernels complete after their launches, that no test    *)
(* operates on the list or that freed memory is intact, it says so          *)
(* (LaunchFirst, ~TestAPI, FreedIntact).                                    *)
(***************************************************************************)
EXTENDS ADAnomalyProvenance, SequenceTheorems, FiniteSetTheorems, WellFoundedInduction, TLAPS

-----------------------------------------------------------------------------
(* Type correctness.  Only a call of the list has its correlation IDs       *)
(* matched.                                                                 *)

TypeInv == TypeOK /\ (op = "match" => current \in Call)

LEMMA PopType ==
  ASSUME NEW S, NEW s \in Seq(S), s # <<>>
  PROVE  Pop(s) \in Seq(S) /\ Top(s) \in S
  BY DEF Pop, Top

LEMMA ProtectedType ==
  ASSUME NEW rf \in [Call -> Nat], NEW S
  PROVE  Protected(rf, S) \in [Call -> Nat]
  BY DEF Protected

LEMMA UnprotectedType ==
  ASSUME refs \in [Call -> Nat], NEW S, CanUnprotect(S)
  PROVE  Unprotected(refs, S) \in [Call -> Nat]
  <1> SUFFICES ASSUME NEW c \in Call
               PROVE  (IF c \in S THEN refs[c] - 1 ELSE refs[c]) \in Nat
    BY DEF Unprotected
  <1>1. CASE c \in S
    <2>1. refs[c] \in Nat /\ refs[c] > 0
      BY <1>1 DEF CanUnprotect
    <2>2. QED BY <2>1, <1>1
  <1>2. CASE c \notin S
    BY <1>2
  <1>3. QED BY <1>1, <1>2

LEMMA AddPartnerType ==
  ASSUME NEW pt \in [Call -> Seq(Call)], NEW c \in Call, NEW d \in Call
  PROVE  AddPartner(pt, c, d) \in [Call -> Seq(Call)]
  BY DEF AddPartner

LEMMA ClearUnlabeledType ==
  ASSUME execData \subseteq Call, NEW freed, ClearUnlabeled(freed)
  PROVE  execData' \subseteq Call
  BY DEF ClearUnlabeled, Unlabelled

LEMMA TypeInit == Init => TypeInv
  BY ADEventAssumption DEF Init, TypeInv, TypeOK, Call

LEMMA TypeNext == TypeInv /\ [Next]_vars => TypeInv'
  <1> SUFFICES ASSUME TypeInv, [Next]_vars
               PROVE  TypeInv'
    OBVIOUS
  <1> USE DEF TypeInv, TypeOK, callVars, matchVars, purgeVars
  <1>1. ASSUME NEW t \in Thread, Enter(t)
        PROVE  TypeInv'
    <2> DEFINE c == nCalls + 1
    <2>1. c \in Call /\ nCalls' = c /\ nCalls' \in 0 .. MaxCalls
      BY <1>1, ADEventAssumption DEF Enter, Call
    <2>2. above' \in [Call -> SUBSET Call]
      <3>1. CASE stack[t] = <<>>
        BY <1>1, <2>1, <3>1 DEF Enter
      <3>2. CASE stack[t] # <<>>
        BY <1>1, <2>1, <3>2, PopType DEF Enter
      <3>3. QED BY <3>1, <3>2
    <2>3. stack' \in [Thread -> Seq(Call)]
      BY <1>1, <2>1 DEF Enter
    <2>4. QED
      BY <1>1, <2>1, <2>2, <2>3 DEF Enter
  <1>2. ASSUME NEW t \in Thread, NEW K \in SUBSET CorrID, Exit(t, K)
        PROVE  TypeInv'
    <2>1. Top(stack[t]) \in Call /\ Pop(stack[t]) \in Seq(Call)
      BY <1>2, PopType DEF Exit
    <2>2. QED
      BY <1>2, <2>1 DEF Exit
  <1>3. ASSUME NEW k \in CorrID, KeepUnmatched(k)
        PROVE  TypeInv'
    BY <1>3, ProtectedType DEF KeepUnmatched
  <1>4. ASSUME NEW k \in CorrID, MatchPartner(k)
        PROVE  TypeInv'
    <2>1. current \in Call /\ unmatched[k] \in Call
      BY <1>4 DEF MatchPartner
    <2>2. Partnered(k) \in [Call -> Seq(Call)]
      <3>1. AddPartner(partners, current, unmatched[k]) \in [Call -> Seq(Call)]
        BY <2>1, AddPartnerType
      <3>2. QED BY <2>1, <3>1, AddPartnerType DEF Partnered
    <2>3. refs' \in [Call -> Nat]
      BY <1>4, UnprotectedType DEF MatchPartner
    <2>4. QED
      BY <1>4, <2>2, <2>3 DEF MatchPartner
  <1>5. ASSUME NEW k \in CorrID, MatchFails(k)
        PROVE  TypeInv'
    BY <1>5 DEF MatchFails
  <1>6. CASE MatchDone
    BY <1>6 DEF MatchDone
  <1>7. ASSUME NEW S \in SUBSET Unlabelled, Analyze(S)
        PROVE  TypeInv'
    BY <1>7 DEF Analyze
  <1>8. CASE PurgeBegin
    BY <1>8 DEF PurgeBegin
  <1>9. ASSUME NEW t \in Thread, PurgeThread(t)
        PROVE  TypeInv'
    BY <1>9 DEF PurgeThread, OutsideWindow, CallsOf
  <1>10. ASSUME NEW c \in Call, PurgeUnlock(c)
         PROVE  TypeInv'
    <2>1. refs' \in [Call -> Nat]
      BY <1>10, UnprotectedType DEF PurgeUnlock
    <2>2. QED
      BY <1>10, <2>1 DEF PurgeUnlock, Visiting
  <1>11. ASSUME NEW c \in Call, PurgeFails(c)
         PROVE  TypeInv'
    BY <1>11 DEF PurgeFails
  <1>12. ASSUME NEW c \in Call, PurgeErase(c)
         PROVE  TypeInv'
    BY <1>12 DEF PurgeErase
  <1>13. ASSUME NEW c \in Call, PurgeLock(c)
         PROVE  TypeInv'
    BY <1>13, ProtectedType DEF PurgeLock
  <1>14. ASSUME NEW c \in Call, PurgeKeep(c)
         PROVE  TypeInv'
    BY <1>14 DEF PurgeKeep
  <1>15. CASE PurgeEnd
    BY <1>15, ClearUnlabeledType DEF PurgeEnd
  <1>16. CASE TrimCallList
    BY <1>16, ClearUnlabeledType DEF TrimCallList
  <1>17. CASE Clear
    BY <1>17, ADEventAssumption DEF Clear
  <1>18. ASSUME NEW t \in Thread, NEW K \in SUBSET CorrID, AddCall(t, K)
         PROVE  TypeInv'
    <2>1. nCalls + 1 \in Call /\ nCalls' \in 0 .. MaxCalls
      BY <1>18, ADEventAssumption DEF AddCall, Call
    <2>2. QED
      BY <1>18, <2>1 DEF AddCall
  <1>19. CASE UNCHANGED vars
    BY <1>19 DEF vars
  <1>20. QED
    BY <1>1, <1>2, <1>3, <1>4, <1>5, <1>6, <1>7, <1>8, <1>9, <1>10, <1>11, <1>12,
       <1>13, <1>14, <1>15, <1>16, <1>17, <1>18, <1>19 DEF Next, Match, Purge

(* Every variable of the event manager keeps its type; in particular no     *)
(* reference count of ExecData_t goes below zero, because                   *)
(* deregister_reference stops the process first.                            *)
THEOREM TypeCorrect == Spec => []TypeOK
  <1>1. Spec => []TypeInv
    BY TypeInit, TypeNext, PTL DEF Spec
  <1>2. TypeInv => TypeOK
    BY DEF TypeInv
  <1>3. QED BY <1>1, <1>2, PTL

-----------------------------------------------------------------------------
(* The call stacks.  The invariant is inductive once identifiers are known  *)
(* to be given out in order.                                                *)

StackInv ==
  /\ live \subseteq 1 .. nCalls
  /\ \A c \in Call : done[c] => c <= nCalls
  /\ StackIsOpenLine

(* What StackInv speaks of. *)
lineVars == <<nCalls, live, thread, above, done, stack>>

LEMMA StackUnchanged ==
  ASSUME StackInv, UNCHANGED lineVars
  PROVE  StackInv'
  BY DEF StackInv, StackIsOpenLine, Open, CallsOf, lineVars

(* Only complete calls leave the list. *)
LEMMA StackFree ==
  ASSUME TypeOK, StackInv,
         live' \subseteq live,
         \A c \in live \ live' : done[c],
         UNCHANGED <<nCalls, thread, above, done, stack>>
  PROVE  StackInv'
  <1>1. live' \subseteq 1 .. nCalls'
    BY DEF StackInv
  <1>2. ASSUME NEW t \in Thread
        PROVE  Open(t)' = Open(t)
    BY DEF Open, CallsOf, TypeOK
  <1>3. QED BY <1>1, <1>2 DEF StackInv, StackIsOpenLine

(* The top of a stack is the last of the open calls. *)
LEMMA TopIsLast ==
  ASSUME TypeOK, StackIsOpenLine, NEW t \in Thread, stack[t] # <<>>
  PROVE  /\ Len(stack[t]) \in Nat \ {0}
         /\ Top(stack[t]) \in Open(t)
         /\ \A d \in Open(t) : d <= Top(stack[t])
         /\ \A i \in 1 .. Len(stack[t]) - 1 : stack[t][i] < Top(stack[t])
  <1> DEFINE n == Len(stack[t])
  <1>1. n \in Nat \ {0} /\ \A i \in 1 .. n : stack[t][i] \in Call
    BY DEF TypeOK
  <1>2. stack[t][n] \in Open(t)
    BY <1>1 DEF StackIsOpenLine
  <1>3. \A i \in 1 .. n - 1 : stack[t][i] < stack[t][n]
    BY <1>1 DEF StackIsOpenLine
  <1>4. ASSUME NEW d \in Open(t)
        PROVE  d <= stack[t][n]
    <2>1. PICK i \in 1 .. n : d = stack[t][i]
      BY DEF StackIsOpenLine
    <2>2. QED BY <1>1, <1>3, <2>1 DEF Call
  <1>5. QED BY <1>1, <1>2, <1>3, <1>4 DEF Top

LEMMA PopElements ==
  ASSUME NEW S, NEW s \in Seq(S), s # <<>>
  PROVE  /\ Len(Pop(s)) = Len(s) - 1
         /\ \A i \in 1 .. Len(s) - 1 : Pop(s)[i] = s[i]
  <1> DEFINE m == Len(s) - 1
  <1>1. m \in Nat /\ m \in Int /\ 1 \in Int
    OBVIOUS
  <1>2. \A i \in 1 .. m : s[i] \in S
    OBVIOUS
  <1>3. /\ Len(SubSeq(s, 1, m)) = IF 1 <= m THEN m - 1 + 1 ELSE 0
        /\ \A i \in 1 .. m - 1 + 1 : SubSeq(s, 1, m)[i] = s[1 + i - 1]
    <2> HIDE DEF m
    <2> QED BY <1>1, <1>2, SubSeqProperties
  <1>4. /\ Len(SubSeq(s, 1, m)) = m
        /\ \A i \in 1 .. m : SubSeq(s, 1, m)[i] = s[i]
    <2> HIDE DEF m
    <2>1. m - 1 + 1 = m /\ \A i \in 1 .. m : 1 + i - 1 = i
      BY <1>1
    <2>2. ~(1 <= m) => m = 0
      BY <1>1
    <2>3. QED BY <1>3, <2>1, <2>2
  <1>5. QED BY <1>4 DEF Pop

LEMMA StackInit == Init => StackInv
  BY ADEventAssumption DEF Init, StackInv, StackIsOpenLine, Open, CallsOf

LEMMA StackEnter ==
  ASSUME TypeInv, StackInv, NEW t \in Thread, Enter(t)
  PROVE  StackInv'
  <1> DEFINE c == nCalls + 1
             n == Len(stack[t])
  <1>1. /\ nCalls \in Nat /\ live \subseteq Call /\ done \in [Call -> BOOLEAN]
        /\ thread \in [Call -> Thread] /\ stack \in [Thread -> Seq(Call)]
        /\ n \in Nat
    BY DEF TypeInv, TypeOK
  <1>2. /\ c \in Call /\ c \notin live /\ ~done[c]
        /\ nCalls' = c /\ live' = live \cup {c} /\ done' = done
        /\ thread' = [thread EXCEPT ![c] = t]
        /\ stack' = [stack EXCEPT ![t] = Append(stack[t], c)]
        /\ \A d \in Call : d # c => above'[d] = above[d]
    BY <1>1, ADEventAssumption DEF Enter, StackInv, Call, TypeInv, TypeOK
  <1>3. live' \subseteq 1 .. nCalls' /\ \A d \in Call : done'[d] => d <= nCalls'
    <2>1. \A d \in live : d \in 1 .. c
      BY <1>1 DEF StackInv
    <2>2. c \in 1 .. c
      BY <1>1
    <2>3. \A d \in Call : done[d] => d <= c
      BY <1>1 DEF StackInv, Call
    <2> HIDE DEF c
    <2>4. QED BY <1>2, <2>1, <2>2, <2>3
  <1>4. /\ Open(t)' = Open(t) \cup {c}
        /\ \A u \in Thread : u # t => Open(u)' = Open(u)
        /\ \A u \in Thread : Open(u) \subseteq Call /\ \A d \in Open(u) : d < c
    <2>1. \A d \in live : d \in Call /\ d < c
      BY <1>1 DEF StackInv, Call
    <2>2. \A u \in Thread : Open(u) \subseteq live
      BY DEF Open, CallsOf
    <2>3. \A d \in Call : thread'[d] = IF d = c THEN t ELSE thread[d]
      BY <1>1, <1>2
    <2>4. \A u \in Thread : CallsOf(u)' = IF u = t THEN CallsOf(u) \cup {c} ELSE CallsOf(u)
      BY <1>2, <2>1, <2>3 DEF CallsOf
    <2>5. QED BY <1>2, <2>1, <2>2, <2>4 DEF Open
  <1>5. /\ Len(stack'[t]) = n + 1 /\ stack'[t][n + 1] = c
        /\ \A i \in 1 .. n : stack'[t][i] = stack[t][i]
    BY <1>1, <1>2
  <1>6. \A i \in 1 .. n : stack[t][i] \in Open(t)
    BY DEF StackInv, StackIsOpenLine
  <1>7. {stack'[t][i] : i \in 1 .. n + 1} = Open(t)'
    <2>1. {stack'[t][i] : i \in 1 .. n + 1} = {stack[t][i] : i \in 1 .. n} \cup {c}
      <3> HIDE DEF n, c
      <3>1. 1 .. n + 1 = 1 .. n \cup {n + 1}
        BY <1>1
      <3>2. QED BY <1>5, <3>1
    <2>2. QED BY <1>4, <2>1 DEF StackInv, StackIsOpenLine
  <1>8. \A i, j \in 1 .. n + 1 : i < j => stack'[t][i] < stack'[t][j]
    <2> HIDE DEF n
    <2> SUFFICES ASSUME NEW i \in 1 .. n + 1, NEW j \in 1 .. n + 1, i < j
                 PROVE  stack'[t][i] < stack'[t][j]
      OBVIOUS
    <2>1. i \in 1 .. n
      BY <1>1
    <2>2. CASE j = n + 1
      BY <1>4, <1>5, <1>6, <2>1, <2>2
    <2>3. CASE j # n + 1
      <3>1. j \in 1 .. n
        BY <1>1, <2>3
      <3>2. stack[t][i] < stack[t][j]
        BY <2>1, <3>1 DEF StackInv, StackIsOpenLine, n
      <3>3. QED BY <1>5, <2>1, <3>1, <3>2
    <2>4. QED BY <2>2, <2>3
  <1>9. above'[c] = Open(t)
    <2>1. CASE stack[t] = <<>>
      <3>1. Open(t) = {}
        BY <2>1 DEF StackInv, StackIsOpenLine
      <3>2. QED BY <1>2, <2>1, <3>1 DEF Enter, TypeInv, TypeOK
    <2>2. CASE stack[t] # <<>>
      <3>1. above'[c] = {Top(stack[t])} \cup above[Top(stack[t])]
        BY <1>2, <2>2 DEF Enter, TypeInv, TypeOK
      <3>2. /\ Top(stack[t]) \in Open(t)
            /\ \A d \in Open(t) : d <= Top(stack[t])
        BY <2>2, TopIsLast DEF StackInv, TypeInv
      <3>3. above[Top(stack[t])] = {d \in Open(t) : d < Top(stack[t])}
        BY <3>2 DEF StackInv, StackIsOpenLine
      <3>4. QED BY <1>4, <3>1, <3>2, <3>3 DEF Call
    <2>3. QED BY <2>1, <2>2
  <1>10. \A d \in Open(t)' : above'[d] = {e \in Open(t)' : e < d}
    <2>1. above'[c] = {e \in Open(t)' : e < c}
      BY <1>2, <1>4, <1>9 DEF Call
    <2>2. ASSUME NEW d \in Open(t)
          PROVE  above'[d] = {e \in Open(t)' : e < d}
      <3>1. d # c /\ ~(c < d)
        BY <1>2, <1>4 DEF Call
      <3>2. above'[d] = {e \in Open(t) : e < d}
        BY <1>2, <1>4, <3>1 DEF StackInv, StackIsOpenLine
      <3>3. QED BY <1>4, <3>1, <3>2
    <2>3. QED BY <1>4, <2>1, <2>2
  <1>11. ASSUME NEW u \in Thread, u # t
         PROVE  stack'[u] = stack[u] /\ \A d \in Open(u) : above'[d] = above[d]
    BY <1>1, <1>2, <1>4, <1>11
  <1>12. StackIsOpenLine'
    <2> SUFFICES ASSUME NEW u \in Thread
                 PROVE  /\ {stack'[u][i] : i \in 1 .. Len(stack'[u])} = Open(u)'
                        /\ \A i, j \in 1 .. Len(stack'[u]) : i < j => stack'[u][i] < stack'[u][j]
                        /\ \A d \in Open(u)' : above'[d] = {e \in Open(u)' : e < d}
      BY DEF StackIsOpenLine
    <2>1. CASE u = t
      BY <2>1, <1>5, <1>7, <1>8, <1>10
    <2>2. CASE u # t
      <3>1. stack'[u] = stack[u] /\ Open(u)' = Open(u) /\ \A d \in Open(u) : above'[d] = above[d]
        BY <2>2, <1>4, <1>11
      <3>2. QED BY <3>1 DEF StackInv, StackIsOpenLine
    <2>3. QED BY <2>1, <2>2
  <1>13. QED BY <1>3, <1>12 DEF StackInv

LEMMA StackExit ==
  ASSUME TypeInv, StackInv, NEW t \in Thread, NEW K \in SUBSET CorrID, Exit(t, K)
  PROVE  StackInv'
  <1> DEFINE n == Len(stack[t])
             c == Top(stack[t])
  <1>1. /\ stack[t] # <<>>
        /\ done' = [done EXCEPT ![c] = TRUE]
        /\ stack' = [stack EXCEPT ![t] = Pop(stack[t])]
        /\ UNCHANGED <<nCalls, live, thread, above>>
        /\ stack \in [Thread -> Seq(Call)] /\ live \subseteq Call
        /\ done \in [Call -> BOOLEAN] /\ nCalls \in Nat
    BY DEF Exit, TypeInv, TypeOK
  <1>2. /\ n \in Nat \ {0}
        /\ c \in Open(t)
        /\ \A d \in Open(t) : d <= c
        /\ \A i \in 1 .. n - 1 : stack[t][i] < c
    BY <1>1, TopIsLast DEF StackInv, TypeInv
  <1>3. /\ Open(t)' = Open(t) \ {c}
        /\ \A u \in Thread : u # t => Open(u)' = Open(u)
        /\ \A u \in Thread : Open(u) \subseteq Call
    <2>1. \A u \in Thread : CallsOf(u)' = CallsOf(u) /\ CallsOf(u) \subseteq Call
      BY <1>1 DEF CallsOf
    <2>2. c \in CallsOf(t) /\ c \in Call /\ \A u \in Thread : u # t => c \notin CallsOf(u)
      BY <1>1, <1>2 DEF Open, CallsOf
    <2>3. \A d \in Call : done'[d] = IF d = c THEN TRUE ELSE done[d]
      BY <1>1
    <2>4. QED BY <2>1, <2>2, <2>3 DEF Open
  <1>4. /\ Len(stack'[t]) = n - 1
        /\ \A i \in 1 .. n - 1 : stack'[t][i] = stack[t][i]
    <2>1. stack'[t] = Pop(stack[t]) /\ stack[t] \in Seq(Call)
      BY <1>1
    <2>2. QED BY <1>1, <2>1, PopElements
  <1>5. \A d \in Call : done'[d] => d <= nCalls'
    BY <1>1, <1>2 DEF StackInv, Open, CallsOf, Call
  <1>6. {stack'[t][i] : i \in 1 .. n - 1} = Open(t)'
    <2>1. {stack[t][i] : i \in 1 .. n} = Open(t)
      BY DEF StackInv, StackIsOpenLine
    <2>2. stack[t][n] = c /\ \A i \in 1 .. n - 1 : stack[t][i] # c
      <3>1. \A i \in 1 .. n - 1 : stack[t][i] \in Call
        BY <1>1
      <3>2. QED BY <1>2, <1>3, <3>1 DEF Top, Call
    <2> HIDE DEF n, c
    <2>3. \A i \in 1 .. n - 1 : i \in 1 .. n
      BY <1>2
    <2>4. \A i \in 1 .. n : i = n \/ i \in 1 .. n - 1
      BY <1>2
    <2>5. {stack[t][i] : i \in 1 .. n - 1} = Open(t) \ {c}
      BY <2>1, <2>2, <2>3, <2>4
    <2>6. {stack'[t][i] : i \in 1 .. n - 1} = {stack[t][i] : i \in 1 .. n - 1}
      BY <1>4
    <2>7. QED BY <1>3, <2>5, <2>6
  <1>7. \A i, j \in 1 .. n - 1 : i < j => stack'[t][i] < stack'[t][j]
    <2>1. \A i \in 1 .. n - 1 : i \in 1 .. n
      BY <1>2
    <2>2. \A i, j \in 1 .. n : i < j => stack[t][i] < stack[t][j]
      BY DEF StackInv, StackIsOpenLine
    <2> HIDE DEF n
    <2>3. QED BY <1>4, <2>1, <2>2
  <1>8. \A d \in Open(t)' : above'[d] = {e \in Open(t)' : e < d}
    <2> SUFFICES ASSUME NEW d \in Open(t), d # c
                 PROVE  above[d] = {e \in Open(t) \ {c} : e < d}
      BY <1>1, <1>3
    <2>1. above[d] = {e \in Open(t) : e < d}
      BY DEF StackInv, StackIsOpenLine
    <2>2. ~(c < d)
      BY <1>2, <1>3 DEF Call
    <2>3. QED BY <2>1, <2>2
  <1>9. StackIsOpenLine'
    <2> SUFFICES ASSUME NEW u \in Thread
                 PROVE  /\ {stack'[u][i] : i \in 1 .. Len(stack'[u])} = Open(u)'
                        /\ \A i, j \in 1 .. Len(stack'[u]) : i < j => stack'[u][i] < stack'[u][j]
                        /\ \A d \in Open(u)' : above'[d] = {e \in Open(u)' : e < d}
      BY DEF StackIsOpenLine
    <2>1. CASE u = t
      BY <2>1, <1>4, <1>6, <1>7, <1>8
    <2>2. CASE u # t
      <3>1. stack'[u] = stack[u] /\ Open(u)' = Open(u) /\ above' = above
        BY <2>2, <1>1, <1>3
      <3>2. QED BY <3>1 DEF StackInv, StackIsOpenLine
    <2>3. QED BY <2>1, <2>2
  <1>10. QED BY <1>1, <1>5, <1>9 DEF StackInv

LEMMA StackAddCall ==
  ASSUME TypeInv, StackInv, NEW t \in Thread, NEW K \in SUBSET CorrID, AddCall(t, K)
  PROVE  StackInv'
  <1> DEFINE c == nCalls + 1
  <1> USE DEF TypeInv, TypeOK
  <1>1. /\ c \in Call /\ c \notin live
        /\ nCalls' = c /\ live' = live \cup {c}
        /\ done' = [done EXCEPT ![c] = TRUE]
        /\ thread' = [thread EXCEPT ![c] = t]
        /\ UNCHANGED <<above, stack>>
    BY ADEventAssumption DEF AddCall, StackInv, Call
  <1>2. live' \subseteq 1 .. nCalls' /\ \A d \in Call : done'[d] => d <= nCalls'
    BY <1>1 DEF StackInv, Call
  <1>3. ASSUME NEW u \in Thread
        PROVE  Open(u)' = Open(u)
    BY <1>1 DEF Open, CallsOf
  <1>4. QED
    BY <1>1, <1>2, <1>3 DEF StackInv, StackIsOpenLine

LEMMA StackNext == TypeInv /\ StackInv /\ [Next]_vars => StackInv'
  <1> SUFFICES ASSUME TypeInv, StackInv, [Next]_vars
               PROVE  StackInv'
    OBVIOUS
  <1> USE DEF callVars, lineVars
  <1>1. ASSUME NEW t \in Thread, Enter(t)
        PROVE  StackInv'
    BY <1>1, StackEnter
  <1>2. ASSUME NEW t \in Thread, NEW K \in SUBSET CorrID, Exit(t, K)
        PROVE  StackInv'
    BY <1>2, StackExit
  <1>3. CASE Match
    BY <1>3, StackUnchanged DEF Match, KeepUnmatched, MatchPartner, MatchFails, MatchDone
  <1>4. ASSUME NEW S \in SUBSET Unlabelled, Analyze(S)
        PROVE  StackInv'
    BY <1>4, StackUnchanged DEF Analyze
  <1>5. ASSUME NEW c \in Call, PurgeErase(c)
        PROVE  StackInv'
    BY <1>5, StackFree DEF PurgeErase, TypeInv
  <1>6. ASSUME NEW c \in Call,
               \/ PurgeUnlock(c) \/ PurgeFails(c) \/ PurgeLock(c) \/ PurgeKeep(c)
        PROVE  StackInv'
    BY <1>6, StackUnchanged DEF PurgeUnlock, PurgeFails, PurgeLock, PurgeKeep
  <1>7. ASSUME NEW t \in Thread, PurgeThread(t)
        PROVE  StackInv'
    BY <1>7, StackUnchanged DEF PurgeThread
  <1>8. CASE PurgeBegin \/ PurgeEnd
    BY <1>8, StackUnchanged DEF PurgeBegin, PurgeEnd
  <1>9. CASE TrimCallList
    BY <1>9, StackFree DEF TrimCallList, TypeInv
  <1>10. CASE Clear
    BY <1>10 DEF Clear, StackInv, StackIsOpenLine, Open, CallsOf
  <1>11. ASSUME NEW t \in Thread, NEW K \in SUBSET CorrID, AddCall(t, K)
         PROVE  StackInv'
    BY <1>11, StackAddCall
  <1>12. CASE UNCHANGED vars
    BY <1>12, StackUnchanged DEF vars
  <1>13. QED
    BY <1>1, <1>2, <1>3, <1>4, <1>5, <1>6, <1>7, <1>8, <1>9, <1>10, <1>11, <1>12
       DEF Next, Purge

(* The call stack of every thread is exactly its open calls, outermost      *)
(* first, each the parent of the next, whatever the purges free and         *)
(* whatever order threads, launches and kernels come in.                    *)
THEOREM StacksAreOpenLines == Spec => []StackIsOpenLine
  <1>1. Init => TypeInv /\ StackInv
    BY TypeInit, StackInit
  <1>2. (TypeInv /\ StackInv) /\ [Next]_vars => (TypeInv /\ StackInv)'
    BY TypeNext, StackNext
  <1>3. StackInv => StackIsOpenLine
    BY DEF StackInv
  <1>4. QED BY <1>1, <1>2, <1>3, PTL DEF Spec

-----------------------------------------------------------------------------
(* Calls without a label.                                                   *)

LEMMA UnlabelledInit == Init => UnlabelledAnalyzedAgain
  BY DEF Init, UnlabelledAnalyzedAgain

(* Clearing m_execDataMap spares the unlabelled calls of the list. *)
LEMMA ClearKeepsUnlabelled ==
  ASSUME UnlabelledAnalyzedAgain, NEW freed, ClearUnlabeled(freed),
         NEW c \in live \ freed, done[c], ~labelled[c]
  PROVE  c \in execData'
  BY DEF UnlabelledAnalyzedAgain, ClearUnlabeled, Unlabelled

LEMMA UnlabelledNext ==
  TypeInv /\ StackInv /\ UnlabelledAnalyzedAgain /\ [Next]_vars => UnlabelledAnalyzedAgain'
  <1> SUFFICES ASSUME TypeInv, StackInv, UnlabelledAnalyzedAgain, [Next]_vars
               PROVE  UnlabelledAnalyzedAgain'
    OBVIOUS
  <1> USE DEF callVars
  <1>1. ASSUME NEW t \in Thread, Enter(t)
        PROVE  UnlabelledAnalyzedAgain'
    <2>1. ~done[nCalls + 1]
      BY <1>1, ADEventAssumption DEF StackInv, Enter, TypeInv, TypeOK, Call
    <2>2. QED BY <1>1, <2>1 DEF Enter, UnlabelledAnalyzedAgain
  <1>2. ASSUME NEW t \in Thread, NEW K \in SUBSET CorrID, Exit(t, K)
        PROVE  UnlabelledAnalyzedAgain'
    <2>1. \A d \in Call : done'[d] => done[d] \/ d = Top(stack[t])
      BY <1>2 DEF Exit, TypeInv, TypeOK
    <2>2. QED BY <1>2, <2>1 DEF Exit, UnlabelledAnalyzedAgain, TypeInv, TypeOK
  <1>3. CASE Match
    BY <1>3 DEF Match, KeepUnmatched, MatchPartner, MatchFails, MatchDone,
                UnlabelledAnalyzedAgain
  <1>4. ASSUME NEW S \in SUBSET Unlabelled, Analyze(S)
        PROVE  UnlabelledAnalyzedAgain'
    BY <1>4 DEF Analyze, UnlabelledAnalyzedAgain, TypeInv, TypeOK
  <1>5. ASSUME NEW c \in Call,
               \/ PurgeUnlock(c) \/ PurgeFails(c) \/ PurgeErase(c)
               \/ PurgeLock(c) \/ PurgeKeep(c)
        PROVE  UnlabelledAnalyzedAgain'
    BY <1>5 DEF PurgeUnlock, PurgeFails, PurgeErase, PurgeLock, PurgeKeep,
                UnlabelledAnalyzedAgain
  <1>6. ASSUME NEW t \in Thread, PurgeThread(t)
        PROVE  UnlabelledAnalyzedAgain'
    BY <1>6 DEF PurgeThread, UnlabelledAnalyzedAgain
  <1>7. CASE PurgeBegin
    BY <1>7 DEF PurgeBegin, UnlabelledAnalyzedAgain
  <1>8. CASE PurgeEnd
    BY <1>8, ClearKeepsUnlabelled DEF PurgeEnd, UnlabelledAnalyzedAgain
  <1>9. CASE TrimCallList
    <2>1. live' \subseteq live /\ done' = done /\ labelled' = labelled
      BY <1>9 DEF TrimCallList
    <2>2. ClearUnlabeled(Call \ live')
      BY <1>9 DEF TrimCallList
    <2>3. \A c \in live' : c \in live \ (Call \ live')
      BY <2>1
    <2>4. \A c \in live' : done[c] /\ ~labelled[c] => c \in execData'
      BY <2>2, <2>3, ClearKeepsUnlabelled
    <2>5. QED BY <2>1, <2>4 DEF UnlabelledAnalyzedAgain
  <1>10. CASE Clear
    BY <1>10 DEF Clear, UnlabelledAnalyzedAgain
  <1>11. ASSUME NEW t \in Thread, NEW K \in SUBSET CorrID, AddCall(t, K)
         PROVE  UnlabelledAnalyzedAgain'
    <2>1. \A d \in Call : done'[d] => done[d] \/ d = nCalls + 1
      BY <1>11 DEF AddCall, TypeInv, TypeOK
    <2>2. QED BY <1>11, <2>1 DEF AddCall, UnlabelledAnalyzedAgain, TypeInv, TypeOK
  <1>12. CASE UNCHANGED vars
    BY <1>12 DEF vars, UnlabelledAnalyzedAgain
  <1>13. QED
    BY <1>1, <1>2, <1>3, <1>4, <1>5, <1>6, <1>7, <1>8, <1>9, <1>10, <1>11, <1>12
       DEF Next, Purge

(* A completed call keeps its place in m_execDataMap until it has a label:  *)
(* however long the outlier model is not ready for its function, the next   *)
(* analysis sees it, whatever is purged, trimmed or misread in between.     *)
THEOREM UnlabelledNeverLost == Spec => []UnlabelledAnalyzedAgain
  <1>1. Init => TypeInv /\ StackInv /\ UnlabelledAnalyzedAgain
    BY TypeInit, StackInit, UnlabelledInit
  <1>2. /\ TypeInv /\ StackInv /\ UnlabelledAnalyzedAgain
        /\ [Next]_vars
        => (TypeInv /\ StackInv /\ UnlabelledAnalyzedAgain)'
    BY TypeNext, StackNext, UnlabelledNext
  <1>3. QED BY <1>1, <1>2, PTL DEF Spec

-----------------------------------------------------------------------------
(* Partners.  Of an ID, the calls that have met are those that carry it,    *)
(* but for the one whose IDs are still being examined.                      *)

Carriers(k) == {c \in Call : k \in carried[c]}
Met(k) == {c \in Carriers(k) : ~(k \in pending /\ c = current)}
Among(pt, a, b) == \E i \in DOMAIN pt[a] : pt[a][i] = b

(* An ID is carried by one call of a CPU and by one of a GPU thread at most. *)
CarryInv ==
  /\ \A c \in Call : carried[c] # {} => done[c]
  /\ \A k \in CorrID : \A c, d \in Carriers(k) :
       c # d => (thread[c] \in GPUThread) # (thread[d] \in GPUThread)
  /\ op \in {"idle", "analyzed", "purge"} => pending = {}
  /\ op = "match" => pending \subseteq carried[current] /\ done[current]

PairInv ==
  /\ \A k \in CorrID : \A c \in Call : unmatched[k] = c <=> Met(k) = {c}
  /\ \A a, b \in Call :
       Among(partners, a, b) <=> a # b /\ \E k \in carried[a] \cap carried[b] : k \notin pending

LEMMA CarriersDone ==
  ASSUME TypeOK, StackInv, CarryInv, NEW k, NEW c \in Carriers(k)
  PROVE  c \in Call /\ done[c] /\ c \in 1 .. nCalls
<1>1. c \in Call /\ done[c]
  BY DEF Carriers, CarryInv
<1> QED
  BY <1>1 DEF StackInv, Call, TypeOK

LEMMA ExitIs ==
  ASSUME TypeInv, StackInv, CarryInv,
         NEW t \in Thread, NEW K \in SUBSET CorrID, Exit(t, K),
         NEW c, c = Top(stack[t])
  PROVE  /\ c \in Call /\ c \in live /\ ~done[c] /\ thread[c] = t /\ carried[c] = {}
         /\ above[c] \subseteq live
         /\ op = "idle" /\ pending = {} /\ op' = "match" /\ current' = c /\ pending' = K
         /\ done' \in [Call -> BOOLEAN] /\ \A d \in Call : done'[d] <=> (d = c \/ done[d])
         /\ carried'[c] = K /\ \A d \in Call : d # c => carried'[d] = carried[d]
         /\ \A k \in K : \A d \in Carriers(k) : (thread[d] \in GPUThread) # (t \in GPUThread)
         /\ \A k \in K : LaunchFirst /\ t \in GPUThread => Carriers(k) # {}
         /\ execData' = execData \cup {c}
         /\ UNCHANGED <<nCalls, live, thread, above, labelled, refs, partners, unmatched, locked,
                        purgeVars>>
<1>1. /\ stack[t] # <<>> /\ op = "idle" /\ \A k \in K : MayCarry(t, k)
      /\ done' = [done EXCEPT ![c] = TRUE] /\ carried' = [carried EXCEPT ![c] = K]
      /\ execData' = execData \cup {c} /\ op' = "match" /\ current' = c /\ pending' = K
      /\ UNCHANGED <<nCalls, live, thread, above, labelled, refs, partners, unmatched, locked,
                     purgeVars>>
  BY DEF Exit
<1>2. c \in Open(t) /\ above[c] \subseteq Open(t)
  <2>1. TypeOK /\ StackIsOpenLine
    BY DEF TypeInv, StackInv
  <2>2. c \in Open(t)
    BY <1>1, <2>1, TopIsLast
  <2> QED
    BY <2>1, <2>2 DEF StackIsOpenLine
<1>3. c \in Call /\ c \in live /\ ~done[c] /\ thread[c] = t /\ above[c] \subseteq live
  BY <1>2 DEF Open, CallsOf, TypeInv, TypeOK
<1>4. carried[c] = {} /\ pending = {}
  BY <1>1, <1>3 DEF CarryInv
<1>5. ASSUME NEW k \in K
      PROVE  /\ \A d \in Carriers(k) : (thread[d] \in GPUThread) # (t \in GPUThread)
             /\ LaunchFirst /\ t \in GPUThread => Carriers(k) # {}
  <2>1. {d \in 1 .. nCalls : k \in carried[d]} = Carriers(k)
    <3>1. 1 .. nCalls \subseteq Call
      BY ADEventAssumption DEF TypeInv, TypeOK, Call
    <3>2. \A d \in Carriers(k) : d \in 1 .. nCalls
      BY CarriersDone DEF TypeInv
    <3> QED
      BY <3>1, <3>2 DEF Carriers
  <2> QED
    BY <1>1, <2>1 DEF MayCarry
<1> QED
  BY <1>1, <1>3, <1>4, <1>5 DEF TypeInv, TypeOK

LEMMA MetAtExit ==
  ASSUME TypeInv, StackInv, CarryInv, NEW t \in Thread, NEW K \in SUBSET CorrID, Exit(t, K),
         NEW k \in CorrID, NEW c, c = Top(stack[t])
  PROVE  /\ Carriers(k)' = IF k \in K THEN Carriers(k) \cup {c} ELSE Carriers(k)
         /\ c \notin Carriers(k) /\ Met(k)' = Met(k)
<1>1. /\ c \in Call /\ carried[c] = {} /\ pending = {} /\ current' = c /\ pending' = K
      /\ carried'[c] = K /\ \A d \in Call : d # c => carried'[d] = carried[d]
  BY ExitIs
<1>2. /\ Carriers(k)' = IF k \in K THEN Carriers(k) \cup {c} ELSE Carriers(k)
      /\ c \notin Carriers(k)
  BY <1>1 DEF Carriers
<1> QED
  BY <1>1, <1>2 DEF Met

LEMMA CarryQuiet ==
  ASSUME CarryInv, UNCHANGED <<thread, carried, done>>,
         op' \in {"idle", "analyzed", "purge"} => pending' = {},
         op' = "match" => op = "match" /\ current' = current /\ pending' \subseteq pending
  PROVE  CarryInv'
  BY DEF CarryInv, Carriers

LEMMA CarryStep ==
  ASSUME TypeInv, StackInv, CarryInv, ~TestAPI, [Next]_vars
  PROVE  CarryInv'
<1>1. ASSUME NEW t \in Thread, Enter(t) PROVE CarryInv'
  <2> DEFINE c == nCalls + 1
  <2>1. /\ thread' = [thread EXCEPT ![c] = t] /\ UNCHANGED <<carried, done, op, pending>> /\ op = "idle"
    BY <1>1 DEF Enter, matchVars
  <2>2. nCalls \in Nat /\ thread \in [Call -> Thread]
    BY DEF TypeInv, TypeOK, Call
  <2>3. \A k, d : d \in Carriers(k) => d \in Call /\ d # c
    <3>1. \A k, d : d \in Carriers(k) => d \in Call /\ d <= nCalls
      BY CarriersDone DEF TypeInv
    <3> QED
      BY <2>2, <3>1
  <2> HIDE DEF c
  <2>4. \A k, d : d \in Carriers(k) => thread'[d] = thread[d]
    BY <2>1, <2>2, <2>3
  <2>5. \A k : Carriers(k)' = Carriers(k)
    BY <2>1 DEF Carriers
  <2> QED
    BY <2>1, <2>4, <2>5 DEF CarryInv
<1>2. ASSUME NEW t \in Thread, NEW K \in SUBSET CorrID, Exit(t, K) PROVE CarryInv'
  <2>0. PICK c : c = Top(stack[t])
    OBVIOUS
  <2>1. /\ c \in Call /\ thread[c] = t /\ thread' = thread
        /\ op' = "match" /\ current' = c /\ pending' = K
        /\ \A d \in Call : done'[d] <=> (d = c \/ done[d])
        /\ carried'[c] = K /\ \A d \in Call : d # c => carried'[d] = carried[d]
        /\ \A k \in K : \A d \in Carriers(k) : (thread[d] \in GPUThread) # (t \in GPUThread)
    BY <1>2, <2>0, ExitIs
  <2>2. \A k \in CorrID : Carriers(k)' = IF k \in K THEN Carriers(k) \cup {c} ELSE Carriers(k)
    BY <1>2, <2>0, MetAtExit
  <2> QED
    BY <2>1, <2>2 DEF CarryInv
<1>3. CASE Match
  <2>1. ASSUME NEW k \in CorrID, KeepUnmatched(k) \/ MatchPartner(k) PROVE CarryInv'
    BY <2>1, CarryQuiet DEF KeepUnmatched, MatchPartner, callVars
  <2>2. ASSUME NEW k \in CorrID, MatchFails(k) PROVE CarryInv'
    BY <2>2, CarryQuiet DEF MatchFails, callVars
  <2>3. CASE MatchDone
    BY <2>3, CarryQuiet DEF MatchDone, callVars
  <2> QED
    BY <1>3, <2>1, <2>2, <2>3 DEF Match
<1>4. ASSUME NEW S \in SUBSET Unlabelled, Analyze(S) PROVE CarryInv'
  <2>1. pending = {} /\ pending' = pending /\ op' = "analyzed"
    BY <1>4 DEF Analyze, CarryInv, matchVars
  <2> QED
    BY <1>4, <2>1, CarryQuiet DEF Analyze, callVars
<1>5. CASE Purge
  <2>1. UNCHANGED <<thread, carried, done, pending>> /\ op \in {"analyzed", "purge"} /\ op' # "match"
    BY <1>5 DEF Purge, PurgeBegin, PurgeThread, Visiting, PurgeUnlock, PurgeFails, PurgeErase,
       PurgeLock, PurgeKeep, PurgeEnd, callVars, matchVars
  <2>2. pending = {}
    BY <2>1 DEF CarryInv
  <2> QED
    BY <2>1, <2>2, CarryQuiet
<1>6. CASE UNCHANGED vars
  BY <1>6, CarryQuiet DEF vars, CarryInv
<1> QED
  BY <1>1, <1>2, <1>3, <1>4, <1>5, <1>6 DEF Next, TrimCallList, Clear, AddCall
LEMMA PartnerAdded ==
  ASSUME NEW pt \in [Call -> Seq(Call)], NEW c \in Call, NEW d \in Call, NEW a \in Call
  PROVE  /\ AddPartner(pt, c, d) \in [Call -> Seq(Call)]
         /\ a # c => AddPartner(pt, c, d)[a] = pt[a]
         /\ Len(AddPartner(pt, c, d)[a]) = IF a = c THEN Len(pt[a]) + 1 ELSE Len(pt[a])
         /\ \A b : Among(AddPartner(pt, c, d), a, b) <=> Among(pt, a, b) \/ (a = c /\ b = d)
<1> DEFINE s == Append(pt[c], d)
<1>1. /\ s \in Seq(Call) /\ Len(s) = Len(pt[c]) + 1
      /\ s[Len(pt[c]) + 1] = d /\ \A i \in DOMAIN pt[c] : i \in DOMAIN s /\ s[i] = pt[c][i]
      /\ DOMAIN s = DOMAIN pt[c] \cup {Len(pt[c]) + 1}
  OBVIOUS
<1>2. AddPartner(pt, c, d) = [pt EXCEPT ![c] = s]
  BY DEF AddPartner
<1> HIDE DEF s
<1>3. AddPartner(pt, c, d)[a] = IF a = c THEN s ELSE pt[a]
  BY <1>2
<1>4. AddPartner(pt, c, d) \in [Call -> Seq(Call)]
  BY <1>1, <1>2
<1>5. \A b : Among(AddPartner(pt, c, d), a, b) <=> Among(pt, a, b) \/ (a = c /\ b = d)
  <2>1. CASE a = c
    BY <1>1, <1>3, <2>1 DEF Among
  <2>2. CASE a # c
    BY <1>3, <2>2 DEF Among
  <2> QED
    BY <2>1, <2>2
<1> QED
  BY <1>1, <1>3, <1>4, <1>5

(* Of an ID that is examined, there is at most one other call.              *)
LEMMA OneOther ==
  ASSUME TypeInv, CarryInv, op = "match", NEW k \in pending
  PROVE  /\ k \in CorrID /\ current \in Carriers(k) /\ current \in Call /\ current \notin Met(k)
         /\ Carriers(k) = Met(k) \cup {current}
         /\ \A c, d \in Met(k) : c = d
         /\ \A c \in Met(k) : (thread[c] \in GPUThread) # (thread[current] \in GPUThread)
<1>1. k \in CorrID /\ current \in Carriers(k) /\ current \in Call
  BY DEF TypeInv, TypeOK, CarryInv, Carriers
<1> QED
  BY <1>1 DEF CarryInv, Met

LEMMA PairQuiet ==
  ASSUME PairInv, UNCHANGED <<carried, unmatched, partners, pending>>,
         pending = {} \/ current' = current
  PROVE  PairInv'
<1>1. \A k : Carriers(k)' = Carriers(k)
  BY DEF Carriers
<1>2. \A k : Met(k)' = Met(k)
  BY <1>1 DEF Met
<1> QED
  BY <1>2 DEF PairInv

LEMMA PairExit ==
  ASSUME TypeInv, StackInv, CarryInv, PairInv, NEW t \in Thread, NEW K \in SUBSET CorrID, Exit(t, K)
  PROVE  PairInv'
<1>0. PICK c : c = Top(stack[t])
  OBVIOUS
<1>1. /\ c \in Call /\ carried[c] = {} /\ thread[c] = t /\ pending = {} /\ pending' = K
      /\ carried'[c] = K /\ \A d \in Call : d # c => carried'[d] = carried[d]
      /\ \A k \in K : \A d \in Carriers(k) : (thread[d] \in GPUThread) # (t \in GPUThread)
      /\ partners' = partners /\ unmatched' = unmatched
  BY <1>0, ExitIs
<1>2. \A k \in CorrID : Met(k)' = Met(k)
  BY <1>0, MetAtExit
<1>3. ASSUME NEW a \in Call, NEW b \in Call, a # b
      PROVE  (\E k \in carried'[a] \cap carried'[b] : k \notin pending')
               <=> \E k \in carried[a] \cap carried[b] : k \notin pending
  <2>1. ASSUME NEW k \in carried[a] \cap carried[b] PROVE a # c /\ b # c /\ k \notin K
    <3>1. a # c /\ b # c
      BY <1>1
    <3>2. k \in CorrID /\ a \in Carriers(k) /\ b \in Carriers(k)
      BY DEF Carriers, TypeInv, TypeOK
    <3>3. (thread[a] \in GPUThread) # (thread[b] \in GPUThread)
      BY <1>3, <3>2 DEF CarryInv
    <3> QED
      BY <1>1, <3>1, <3>2, <3>3
  <2> QED
    BY <1>1, <2>1
<1> QED
  BY <1>1, <1>2, <1>3 DEF PairInv

LEMMA PairKeep ==
  ASSUME TypeInv, CarryInv, PairInv, NEW k \in CorrID, KeepUnmatched(k)
  PROVE  PairInv' /\ Met(k) = {} /\ Met(k)' = {current}
<1>1. /\ op = "match" /\ k \in pending /\ unmatched[k] = NoCall
      /\ unmatched' = [unmatched EXCEPT ![k] = current] /\ pending' = pending \ {k}
      /\ UNCHANGED <<carried, partners, current>>
  BY DEF KeepUnmatched, callVars
<1>2. /\ current \in Call /\ Carriers(k) = Met(k) \cup {current} /\ \A c, d \in Met(k) : c = d
  BY <1>1, OneOther
<1>3. Met(k) = {}
  <2>1. SUFFICES ASSUME NEW c \in Met(k) PROVE FALSE
    OBVIOUS
  <2>2. Met(k) = {c} /\ c \in Call
    BY <1>2 DEF Met, Carriers
  <2> QED
    BY <1>1, <2>2, ADEventAssumption DEF PairInv
<1>4. \A j : Carriers(j)' = Carriers(j)
  BY <1>1 DEF Carriers
<1>5. Met(k)' = {current} /\ \A j \in CorrID : j # k => Met(j)' = Met(j)
  BY <1>1, <1>2, <1>3, <1>4 DEF Met
<1>6. ASSUME NEW j \in CorrID, NEW c \in Call
      PROVE  unmatched'[j] = c <=> Met(j)' = {c}
  <2>0. unmatched \in [CorrID -> Call \cup {NoCall}]
    BY DEF TypeInv, TypeOK
  <2>1. CASE j = k
    BY <1>1, <1>2, <1>5, <2>0, <2>1
  <2>2. CASE j # k
    BY <1>1, <1>5, <2>0, <2>2 DEF PairInv
  <2> QED
    BY <2>1, <2>2
<1>7. ASSUME NEW a \in Call, NEW b \in Call, a # b
      PROVE  (\E j \in carried[a] \cap carried[b] : j \notin pending')
               <=> \E j \in carried[a] \cap carried[b] : j \notin pending
  <2>1. ~(k \in carried[a] \cap carried[b])
    BY <1>2, <1>3, <1>7 DEF Carriers
  <2> QED
    BY <1>1, <2>1
<1>8. \A a, b \in Call : Among(partners', a, b) <=> a # b /\ \E j \in carried'[a] \cap carried'[b] : j \notin pending'
  BY <1>1, <1>7 DEF PairInv
<1> QED
  BY <1>3, <1>5, <1>6, <1>8 DEF PairInv

LEMMA MatchIs ==
  ASSUME TypeInv, CarryInv, PairInv, NEW k \in CorrID, MatchPartner(k), NEW e, e = unmatched[k]
  PROVE  /\ op = "match" /\ k \in pending /\ e \in live
         /\ e \in Call /\ current \in Call /\ e # current /\ Met(k) = {e}
         /\ k \in carried[e] /\ k \in carried[current] /\ Carriers(k) = {e, current}
         /\ (thread[e] \in GPUThread) # (thread[current] \in GPUThread)
         /\ partners' \in [Call -> Seq(Call)]
         /\ \A a, b \in Call : Among(partners', a, b) <=>
              Among(partners, a, b) \/ (a = current /\ b = e) \/ (a = e /\ b = current)
         /\ \A a \in Call : /\ a # e /\ a # current => partners'[a] = partners[a]
                            /\ Len(partners'[a]) = IF a \in {e, current} THEN Len(partners[a]) + 1
                                                   ELSE Len(partners[a])
<1>1. /\ op = "match" /\ k \in pending /\ e \in live
      /\ partners' = AddPartner(AddPartner(partners, current, e), e, current)
  BY DEF MatchPartner, Partnered
<1>2. e \in Call /\ partners \in [Call -> Seq(Call)]
  BY <1>1 DEF TypeInv, TypeOK
<1>3. Met(k) = {e}
  BY <1>2 DEF PairInv
<1>4. /\ current \in Call /\ current \notin Met(k) /\ Carriers(k) = Met(k) \cup {current}
      /\ (thread[e] \in GPUThread) # (thread[current] \in GPUThread)
  BY <1>1, <1>3, OneOther
<1>5. k \in carried[e] /\ k \in carried[current] /\ Carriers(k) = {e, current}
  BY <1>3, <1>4 DEF Carriers
<1> DEFINE p == AddPartner(partners, current, e)
<1>6. ASSUME NEW a \in Call
      PROVE  /\ p \in [Call -> Seq(Call)]
             /\ a # current => p[a] = partners[a]
             /\ Len(p[a]) = IF a = current THEN Len(partners[a]) + 1 ELSE Len(partners[a])
             /\ \A b : Among(p, a, b) <=> Among(partners, a, b) \/ (a = current /\ b = e)
  <2>1. current \in Call /\ e \in Call /\ partners \in [Call -> Seq(Call)]
    BY <1>2, <1>4
  <2>2. p \in [Call -> Seq(Call)] /\ p = [partners EXCEPT ![current] = Append(partners[current], e)]
    BY <2>1 DEF AddPartner
  <2>3. \A b : Among(p, a, b) <=> Among(partners, a, b) \/ (a = current /\ b = e)
    BY <2>1, PartnerAdded
  <2> HIDE DEF p
  <2>4. p[a] = IF a = current THEN Append(partners[a], e) ELSE partners[a]
    BY <2>1, <2>2
  <2>5. Len(Append(partners[a], e)) = Len(partners[a]) + 1
    BY <2>1
  <2>6. a # current => p[a] = partners[a]
    BY <2>4
  <2>7. Len(p[a]) = IF a = current THEN Len(partners[a]) + 1 ELSE Len(partners[a])
    BY <2>4, <2>5
  <2> QED
    BY <2>2, <2>3, <2>6, <2>7
<1> HIDE DEF p
<1>7. p \in [Call -> Seq(Call)]
  BY <1>2, <1>6
<1>8. ASSUME NEW a \in Call
      PROVE  /\ partners' \in [Call -> Seq(Call)]
             /\ a # e => partners'[a] = p[a]
             /\ Len(partners'[a]) = IF a = e THEN Len(p[a]) + 1 ELSE Len(p[a])
             /\ \A b : Among(partners', a, b) <=> Among(p, a, b) \/ (a = e /\ b = current)
  <2>1. current \in Call /\ e \in Call /\ p \in [Call -> Seq(Call)]
    BY <1>2, <1>4, <1>7
  <2>2. partners' = AddPartner(p, e, current)
    BY <1>1 DEF p
  <2>3. partners' \in [Call -> Seq(Call)] /\ partners' = [p EXCEPT ![e] = Append(p[e], current)]
    BY <2>1, <2>2 DEF AddPartner
  <2>4. \A b : Among(partners', a, b) <=> Among(p, a, b) \/ (a = e /\ b = current)
    BY <2>1, <2>2, PartnerAdded
  <2>5. partners'[a] = IF a = e THEN Append(p[a], current) ELSE p[a]
    BY <2>1, <2>3
  <2>6. Len(Append(p[a], current)) = Len(p[a]) + 1
    BY <2>1
  <2>7. a # e => partners'[a] = p[a]
    BY <2>5
  <2>8. Len(partners'[a]) = IF a = e THEN Len(p[a]) + 1 ELSE Len(p[a])
    BY <2>5, <2>6
  <2> QED
    BY <2>3, <2>4, <2>7, <2>8
<1>9. e # current
  BY <1>3, <1>4
<1>10. \A a, b \in Call : Among(partners', a, b) <=>
         Among(partners, a, b) \/ (a = current /\ b = e) \/ (a = e /\ b = current)
  BY <1>6, <1>8
<1>11. \A a \in Call : /\ a # e /\ a # current => partners'[a] = partners[a]
                       /\ Len(partners'[a]) = IF a \in {e, current} THEN Len(partners[a]) + 1
                                              ELSE Len(partners[a])
  BY <1>6, <1>8, <1>9
<1>12. partners' \in [Call -> Seq(Call)]
  BY <1>2, <1>8
<1> QED
  BY <1>1, <1>2, <1>3, <1>4, <1>5, <1>9, <1>10, <1>11, <1>12

LEMMA PairMatch ==
  ASSUME TypeInv, CarryInv, PairInv, NEW k \in CorrID, MatchPartner(k)
  PROVE  PairInv'
<1>0. PICK e : e = unmatched[k]
  OBVIOUS
<1>1. /\ k \in pending /\ e \in Call /\ current \in Call /\ e # current /\ Met(k) = {e}
      /\ k \in carried[e] /\ k \in carried[current] /\ Carriers(k) = {e, current}
      /\ \A a, b \in Call : Among(partners', a, b) <=>
           Among(partners, a, b) \/ (a = current /\ b = e) \/ (a = e /\ b = current)
  BY <1>0, MatchIs
<1>2. /\ unmatched' = [unmatched EXCEPT ![k] = NoCall] /\ pending' = pending \ {k}
      /\ UNCHANGED <<carried, current>>
  BY DEF MatchPartner, callVars
<1>3. \A j : Carriers(j)' = Carriers(j)
  BY <1>2 DEF Carriers
<1>4. Met(k)' = {e, current} /\ \A j \in CorrID : j # k => Met(j)' = Met(j)
  BY <1>1, <1>2, <1>3 DEF Met
<1>5. ASSUME NEW j \in CorrID, NEW c \in Call
      PROVE  unmatched'[j] = c <=> Met(j)' = {c}
  <2>1. CASE j = k
    <3>1. unmatched \in [CorrID -> Call \cup {NoCall}] /\ NoCall \notin Call
      BY ADEventAssumption DEF TypeInv, TypeOK
    <3>2. unmatched'[j] # c
      BY <1>2, <2>1, <3>1
    <3>3. Met(j)' # {c}
      BY <1>1, <1>4, <2>1
    <3> QED
      BY <3>2, <3>3
  <2>2. CASE j # k
    BY <1>2, <1>4, <2>2 DEF PairInv, TypeInv, TypeOK
  <2> QED
    BY <2>1, <2>2
<1>6. ASSUME NEW a \in Call, NEW b \in Call
      PROVE  Among(partners', a, b) <=> a # b /\ \E j \in carried'[a] \cap carried'[b] : j \notin pending'
  <2>1. a # b => (k \in carried[a] \cap carried[b] <=> (a = current /\ b = e) \/ (a = e /\ b = current))
    <3>1. a \in Carriers(k) <=> k \in carried[a]
      BY DEF Carriers
    <3>2. b \in Carriers(k) <=> k \in carried[b]
      BY DEF Carriers
    <3> QED
      BY <1>1, <3>1, <3>2
  <2>2. (\E j \in carried[a] \cap carried[b] : j \notin pending')
          <=> (k \in carried[a] \cap carried[b] \/ \E j \in carried[a] \cap carried[b] : j \notin pending)
    BY <1>2
  <2> QED
    BY <1>1, <1>2, <2>1, <2>2 DEF PairInv
<1> QED
  BY <1>5, <1>6 DEF PairInv

LEMMA PairStep ==
  ASSUME TypeInv, StackInv, CarryInv, PairInv, ~TestAPI, [Next]_vars
  PROVE  PairInv'
<1>1. ASSUME NEW t \in Thread, Enter(t) PROVE PairInv'
  BY <1>1, PairQuiet DEF Enter, matchVars
<1>2. ASSUME NEW t \in Thread, NEW K \in SUBSET CorrID, Exit(t, K) PROVE PairInv'
  BY <1>2, PairExit
<1>3. CASE Match
  <2>1. ASSUME NEW k \in CorrID, MatchFails(k) PROVE PairInv'
    BY <2>1, PairQuiet DEF MatchFails, callVars, matchVars
  <2>2. CASE MatchDone
    BY <2>2, PairQuiet DEF MatchDone, callVars
  <2> QED
    BY <1>3, <2>1, <2>2, PairKeep, PairMatch DEF Match
<1>4. ASSUME NEW S \in SUBSET Unlabelled, Analyze(S) PROVE PairInv'
  BY <1>4, PairQuiet DEF Analyze, callVars, matchVars
<1>5. CASE Purge
  <2>1. UNCHANGED <<carried, unmatched, partners, pending, current>>
    BY <1>5 DEF Purge, PurgeBegin, PurgeThread, PurgeUnlock, PurgeFails, PurgeErase,
       PurgeLock, PurgeKeep, PurgeEnd, callVars, matchVars
  <2> QED
    BY <2>1, PairQuiet
<1>6. CASE UNCHANGED vars
  BY <1>6, PairQuiet DEF vars
<1> QED
  BY <1>1, <1>2, <1>3, <1>4, <1>5, <1>6 DEF Next, TrimCallList, Clear, AddCall

LEMMA PairInit ==
  ASSUME Init
  PROVE  CarryInv /\ PairInv
<1>1. /\ carried = [c \in Call |-> {}] /\ partners = [c \in Call |-> <<>>]
      /\ unmatched = [k \in CorrID |-> NoCall] /\ pending = {} /\ op = "idle"
  BY DEF Init
<1>2. \A k : Carriers(k) = {} /\ Met(k) = {}
  BY <1>1 DEF Carriers, Met
<1>3. \A a \in Call : \A b : ~Among(partners, a, b)
  BY <1>1 DEF Among
<1> QED
  BY <1>1, <1>2, <1>3, ADEventAssumption DEF CarryInv, PairInv

LEMMA CallsFinite ==
  ASSUME NEW S \in SUBSET Call
  PROVE  IsFiniteSet(S)
<1>1. MaxCalls \in Int /\ 1 \in Int
  BY ADEventAssumption
<1>2. IsFiniteSet(Call)
  BY <1>1, FS_Interval DEF Call
<1> QED
  BY <1>2, FS_Subset

(* checkAndMatchCorrelationID: whatever comes in between, and in whatever    *)
(* order, two calls are partners exactly when they share a correlation ID,  *)
(* and the call that waits for an ID is the one that carries it.            *)
THEOREM PartnersAreMatched ==
  ASSUME ~TestAPI
  PROVE  Spec => []PartnersMatch
<1>1. Init => TypeInv /\ StackInv /\ CarryInv /\ PairInv
  BY TypeInit, StackInit, PairInit
<1>2. TypeInv /\ StackInv /\ CarryInv /\ PairInv /\ [Next]_vars
      => (TypeInv /\ StackInv /\ CarryInv /\ PairInv)'
  BY TypeNext, StackNext, CarryStep, PairStep
<1>3. TypeInv /\ CarryInv /\ PairInv => PartnersMatch
  <2> SUFFICES ASSUME TypeInv, CarryInv, PairInv, op \notin {"match", "terminated"}
               PROVE  PartnersMatch
    BY DEF PartnersMatch
  <2>1. pending = {}
    BY DEF CarryInv, TypeInv, TypeOK
  <2>2. \A k : Met(k) = Carriers(k)
    BY <2>1 DEF Met
  <2>3. ASSUME NEW a \in live, NEW b \in live, a # b
        PROVE  (carried[a] \cap carried[b] # {}) <=> \E i \in DOMAIN partners[a] : partners[a][i] = b
    BY <2>1, <2>3 DEF PairInv, Among, TypeInv, TypeOK
  <2>4. ASSUME NEW k \in CorrID
        PROVE  IF Cardinality(Carriers(k)) = 1 THEN unmatched[k] \in Carriers(k) ELSE unmatched[k] = NoCall
    <3>1. IsFiniteSet(Carriers(k))
      BY CallsFinite DEF Carriers
    <3>2. Cardinality(Carriers(k)) = 1 <=> \E c : Carriers(k) = {c}
      BY <3>1, FS_Singleton
    <3>3. \A c \in Call : unmatched[k] = c <=> Carriers(k) = {c}
      BY <2>2 DEF PairInv
    <3>4. unmatched[k] \in Call \cup {NoCall} /\ Carriers(k) \subseteq Call
      BY DEF TypeInv, TypeOK, Carriers
    <3>5. CASE Cardinality(Carriers(k)) = 1
      <4>1. PICK c : Carriers(k) = {c}
        BY <3>2, <3>5
      <4> QED
        BY <3>3, <3>4, <3>5, <4>1
    <3>6. CASE Cardinality(Carriers(k)) # 1
      BY <3>2, <3>3, <3>4, <3>6
    <3> QED
      BY <3>5, <3>6
  <2> QED
    BY <2>3, <2>4 DEF PartnersMatch, Carriers
<1> QED
  BY <1>1, <1>2, <1>3, PTL DEF Spec
-----------------------------------------------------------------------------
(* The reference counts, for kernels that complete after their launch.      *)

(* A kernel finds its launch and does not wait. *)
LaunchInv ==
  /\ \A k \in CorrID : \A c \in Carriers(k) :
       thread[c] \in GPUThread => \E d \in Carriers(k) : d # c
  /\ \A k \in CorrID : unmatched[k] # NoCall => thread[unmatched[k]] \notin GPUThread

(* Parents come before their children; what is yet to come has no count.    *)
OrderInv ==
  /\ \A c \in Call : \A a \in above[c] : a < c
  /\ \A c \in Call : c > nCalls => refs[c] = 0
  /\ \A c \in locked : done[c]
  /\ toVisit \subseteq live

(* The call whose IDs are examined has its line, and is not locked yet.     *)
MatchInv ==
  op = "match" => {current} \cup above[current] \subseteq live /\ current \notin locked

GCInv == OrderInv /\ MatchInv /\ RefCountExact /\ UnmatchedLineAlive

LEMMA LaunchStep ==
  ASSUME TypeInv, StackInv, CarryInv, PairInv, LaunchInv, LaunchFirst, ~TestAPI, [Next]_vars
  PROVE  LaunchInv'
<1>0. \A k \in CorrID : unmatched[k] # NoCall => unmatched[k] \in Carriers(k)
  <2> SUFFICES ASSUME NEW k \in CorrID, unmatched[k] # NoCall PROVE unmatched[k] \in Carriers(k)
    OBVIOUS
  <2>1. unmatched[k] \in Call
    BY DEF TypeInv, TypeOK
  <2> QED
    BY <2>1 DEF PairInv, Met
<1>1. ASSUME NEW t \in Thread, Enter(t) PROVE LaunchInv'
  <2> DEFINE c == nCalls + 1
  <2>1. /\ thread' = [thread EXCEPT ![c] = t] /\ UNCHANGED <<carried, unmatched>>
    BY <1>1 DEF Enter
  <2>2. \A k, d : d \in Carriers(k) => d \in Call /\ d # c
    <3>1. \A k, d : d \in Carriers(k) => d \in Call /\ d <= nCalls
      BY CarriersDone DEF TypeInv
    <3>2. nCalls \in Nat
      BY DEF TypeInv, TypeOK
    <3> QED
      BY <3>1, <3>2
  <2> HIDE DEF c
  <2>3. \A k, d : d \in Carriers(k) => thread'[d] = thread[d]
    BY <2>1, <2>2 DEF TypeInv, TypeOK
  <2>4. \A k : Carriers(k)' = Carriers(k)
    BY <2>1 DEF Carriers
  <2> QED
    BY <1>0, <2>1, <2>3, <2>4 DEF LaunchInv
<1>2. ASSUME NEW t \in Thread, NEW K \in SUBSET CorrID, Exit(t, K) PROVE LaunchInv'
  <2>0. PICK c : c = Top(stack[t])
    OBVIOUS
  <2>1. /\ thread[c] = t /\ thread' = thread /\ unmatched' = unmatched
        /\ \A k \in K : t \in GPUThread => Carriers(k) # {}
    BY <1>2, <2>0, ExitIs
  <2>2. \A k \in CorrID : /\ Carriers(k)' = IF k \in K THEN Carriers(k) \cup {c} ELSE Carriers(k)
                          /\ c \notin Carriers(k)
    BY <1>2, <2>0, MetAtExit
  <2> QED
    BY <2>1, <2>2 DEF LaunchInv
<1>3. CASE Match
  <2>1. UNCHANGED <<thread, carried>> /\ \A k : Carriers(k)' = Carriers(k)
    BY <1>3 DEF Match, KeepUnmatched, MatchPartner, MatchFails, MatchDone, callVars, Carriers
  <2>2. ASSUME NEW k \in CorrID, KeepUnmatched(k) PROVE LaunchInv'
    <3>1. /\ op = "match" /\ k \in pending /\ unmatched' = [unmatched EXCEPT ![k] = current]
      BY <2>2 DEF KeepUnmatched
    <3>2. Met(k) = {}
      BY <2>2, PairKeep
    <3>3. current \in Carriers(k) /\ Carriers(k) = {current}
      BY <3>1, <3>2, OneOther
    <3>4. thread[current] \notin GPUThread
      BY <3>3 DEF LaunchInv
    <3> QED
      BY <2>1, <3>1, <3>4 DEF LaunchInv, TypeInv, TypeOK
  <2>3. ASSUME NEW k \in CorrID, MatchPartner(k) PROVE LaunchInv'
    <3>1. unmatched' = [unmatched EXCEPT ![k] = NoCall]
      BY <2>3 DEF MatchPartner
    <3> QED
      BY <2>1, <3>1 DEF LaunchInv, TypeInv, TypeOK
  <2>4. CASE (\E k \in CorrID : MatchFails(k)) \/ MatchDone
    <3>1. unmatched' = unmatched
      BY <2>4 DEF MatchFails, MatchDone
    <3> QED
      BY <2>1, <3>1 DEF LaunchInv
  <2> QED
    BY <1>3, <2>2, <2>3, <2>4 DEF Match
<1>4. CASE (\E S \in SUBSET Unlabelled : Analyze(S)) \/ Purge \/ UNCHANGED vars
  <2>1. UNCHANGED <<thread, carried, unmatched>>
    BY <1>4 DEF Analyze, Purge, PurgeBegin, PurgeThread, PurgeUnlock, PurgeFails, PurgeErase,
       PurgeLock, PurgeKeep, PurgeEnd, callVars, vars
  <2>2. \A k : Carriers(k)' = Carriers(k)
    BY <2>1 DEF Carriers
  <2> QED
    BY <2>1, <2>2 DEF LaunchInv
<1> QED
  BY <1>1, <1>2, <1>3, <1>4 DEF Next, TrimCallList, Clear, AddCall

-----------------------------------------------------------------------------
(* What is protected.                                                       *)

LEMMA CoverAlive ==
  ASSUME TypeOK, NEW e \in Call, NEW pt
  PROVE  /\ Cover(e, pt) \subseteq {e} \cup live
         /\ \A x \in Call : ParentsReached(x) \subseteq live
         /\ \A x \in Call : above[x] \subseteq live => ParentsReached(x) = above[x]
         /\ above[e] \subseteq live => above[e] \subseteq Cover(e, pt)
<1>1. ASSUME NEW x \in Call
      PROVE  /\ ParentsReached(x) \subseteq live
             /\ above[x] \subseteq live => ParentsReached(x) = above[x]
  <2>1. \A a \in above[x] : a >= a
    BY DEF TypeOK, Call
  <2> QED
    BY <2>1 DEF ParentsReached
<1>2. above[e] \subseteq live => above[e] \subseteq Cover(e, pt)
  BY <1>1 DEF Cover
<1>3. \A d \in live : ParentsReached(d) \subseteq live
  BY <1>1 DEF TypeOK
<1> QED
  BY <1>1, <1>2, <1>3 DEF Cover

(* The line of a call and that of its partner change when neither the calls *)
(* nor, for a kernel, its partners do.                                      *)
LEMMA CoverSame ==
  ASSUME UNCHANGED <<live, thread, above>>, NEW e,
         thread[e] \notin GPUThread \/ partners'[e] = partners[e]
  PROVE  Cover(e, partners)' = Cover(e, partners)
<1>1. \A c : ParentsReached(c)' = ParentsReached(c)
  BY DEF ParentsReached
<1> QED
  BY <1>1 DEF Cover

(* What is freed is not reached; the rest of every line stays reached.      *)
LEMMA ParentsFree ==
  ASSUME TypeOK, NEW c \in live, live' = live \ {c}, UNCHANGED above,
         NEW e \in Call, c \notin ParentsReached(e)
  PROVE  ParentsReached(e)' = ParentsReached(e)
<1>1. above[e] \subseteq Call /\ live \subseteq Call /\ Call \subseteq Nat
  BY DEF TypeOK, Call
<1>2. ASSUME NEW a \in ParentsReached(e)
      PROVE  a \in ParentsReached(e)'
  <2>1. a \in above[e] /\ \A b \in above[e] : b >= a => b \in live
    BY DEF ParentsReached
  <2>2. ASSUME NEW b \in above[e], b >= a PROVE b # c
    <3>1. ASSUME b = c PROVE c \in ParentsReached(e)
      <4>1. \A x \in above[e] : x >= c => x >= a
        <5>1. c \in Nat /\ a \in Nat /\ c >= a /\ \A x \in above[e] : x \in Nat
          BY <1>1, <2>1, <2>2, <3>1
        <5> QED
          BY <5>1
      <4> QED
        BY <2>1, <3>1, <4>1 DEF ParentsReached
    <3> QED
      BY <3>1
  <2> QED
    BY <2>1, <2>2 DEF ParentsReached
<1>3. ParentsReached(e)' \subseteq ParentsReached(e)
  BY DEF ParentsReached
<1> QED
  BY <1>2, <1>3

LEMMA CoverFree ==
  ASSUME TypeOK, NEW c \in live, live' = live \ {c}, UNCHANGED <<thread, above, partners>>,
         NEW e \in Call, c \notin Cover(e, partners)
  PROVE  Cover(e, partners)' = Cover(e, partners)
<1>1. ParentsReached(e)' = ParentsReached(e)
  BY ParentsFree DEF Cover
<1>2. PICK d : d = partners[e][1]
  OBVIOUS
<1>3. partners'[e] = partners[e] /\ thread'[e] = thread[e]
  OBVIOUS
<1>4. CASE thread[e] \in GPUThread /\ Len(partners[e]) = 1 /\ d \in live
  <2>1. d # c /\ c \notin ParentsReached(d)
    BY <1>2, <1>4 DEF Cover
  <2>2. d \in Call
    BY <1>4 DEF TypeOK
  <2>3. ParentsReached(d)' = ParentsReached(d)
    BY <2>1, <2>2, ParentsFree
  <2>4. Cover(e, partners) = {e} \cup ParentsReached(e) \cup ({d} \cup ParentsReached(d))
    BY <1>2, <1>4 DEF Cover
  <2>5. Cover(e, partners)' = {e} \cup ParentsReached(e)' \cup ({d} \cup ParentsReached(d)')
    BY <1>2, <1>3, <1>4, <2>1 DEF Cover
  <2> QED
    BY <1>1, <2>3, <2>4, <2>5
<1>5. CASE ~(thread[e] \in GPUThread /\ Len(partners[e]) = 1 /\ d \in live)
  BY <1>1, <1>2, <1>3, <1>5 DEF Cover
<1> QED
  BY <1>4, <1>5
LEMMA EnterIs ==
  ASSUME TypeInv, StackInv, NEW t \in Thread, Enter(t), NEW c, c = nCalls + 1
  PROVE  /\ nCalls \in Nat /\ c \in Call /\ Call \subseteq Nat
         /\ \A x \in live : x \in Call /\ x < c
         /\ live' = live \cup {c} /\ nCalls' = c /\ op' = "idle" /\ c \notin live
         /\ UNCHANGED <<refs, partners, unmatched, locked, done, toVisit>>
<1>1. nCalls \in Nat /\ MaxCalls \in Nat /\ nCalls < MaxCalls /\ live \subseteq 1 .. nCalls
  BY ADEventAssumption DEF TypeInv, TypeOK, StackInv, Enter
<1>2. c \in Call /\ Call \subseteq Nat
  BY <1>1 DEF Call
<1>3. \A x \in live : x \in Call /\ x < c
  BY <1>1 DEF TypeInv, TypeOK
<1>4. /\ live' = live \cup {c} /\ nCalls' = c /\ op' = "idle"
      /\ UNCHANGED <<refs, partners, unmatched, locked, done, toVisit>>
  BY DEF Enter, purgeVars
<1>5. c \notin live
  BY <1>1
<1> QED
  BY <1>1, <1>2, <1>3, <1>4, <1>5

LEMMA CoverEnter ==
  ASSUME TypeInv, StackInv, CarryInv, PairInv, OrderInv, NEW t \in Thread, Enter(t),
         NEW e \in live, NEW c, c = nCalls + 1
  PROVE  Cover(e, partners)' = Cover(e, partners) /\ c \notin Cover(e, partners)
<1>1. /\ nCalls \in Nat /\ c \in Call /\ Call \subseteq Nat
      /\ \A x \in live : x \in Call /\ x < c
  BY EnterIs
<1>2. /\ thread' = [thread EXCEPT ![c] = t] /\ live' = live \cup {c} /\ partners' = partners
      /\ \A x \in Call : x # c => above'[x] = above[x] /\ thread'[x] = thread[x]
  BY <1>1 DEF Enter, TypeInv, TypeOK
<1>3. ASSUME NEW x \in Call, x < c
      PROVE  ParentsReached(x)' = ParentsReached(x) /\ c \notin ParentsReached(x)
  <2>1. above'[x] = above[x] /\ \A a \in above[x] : a \in Call /\ a # c
    BY <1>1, <1>2, <1>3 DEF OrderInv, TypeInv, TypeOK
  <2> QED
    BY <1>2, <2>1 DEF ParentsReached
<1>4. PICK d : d = partners[e][1]
  OBVIOUS
<1>5. ParentsReached(e)' = ParentsReached(e) /\ c \notin ParentsReached(e) /\ c # e
  <2>1. e \in Call /\ e < c /\ ~(c < c)
    BY <1>1
  <2> QED
    BY <1>3, <2>1
<1>6. CASE thread[e] \in GPUThread /\ Len(partners[e]) = 1
  <2>1. d \in Call /\ Among(partners, e, d)
    BY <1>1, <1>4, <1>6 DEF TypeInv, TypeOK, Among
  <2>2. PICK k : k \in carried[e] \cap carried[d]
    BY <1>1, <2>1 DEF PairInv
  <2>3. d \in 1 .. nCalls
    BY <2>1, <2>2, CarriersDone DEF Carriers, TypeInv
  <2>4. d < c /\ d # c
    BY <1>1, <2>3
  <2>5. /\ Cover(e, partners) = {e} \cup ParentsReached(e)
                 \cup IF d \in live THEN {d} \cup ParentsReached(d) ELSE {}
        /\ Cover(e, partners)' = {e} \cup ParentsReached(e)'
                 \cup IF d \in live' THEN {d} \cup ParentsReached(d)' ELSE {}
    <3>1. Cover(e, partners) = {e} \cup ParentsReached(e)
                 \cup IF d \in live THEN {d} \cup ParentsReached(d) ELSE {}
      BY <1>4, <1>6 DEF Cover
    <3>2. thread'[e] = thread[e] /\ d = partners'[e][1] /\ Len(partners'[e]) = 1
      BY <1>1, <1>2, <1>4, <1>6
    <3>3. Cover(e, partners)' = {e} \cup ParentsReached(e)'
                 \cup IF d \in live' THEN {d} \cup ParentsReached(d)' ELSE {}
      BY <1>6, <3>2 DEF Cover
    <3> QED
      BY <3>1, <3>3
  <2>6. ParentsReached(d)' = ParentsReached(d) /\ c \notin ParentsReached(d)
    BY <1>3, <2>1, <2>4
  <2>7. d \in live' <=> d \in live
    BY <1>2, <2>4
  <2>8. Cover(e, partners)' = Cover(e, partners)
    BY <1>5, <2>5, <2>6, <2>7
  <2>9. c \notin Cover(e, partners)
    BY <1>5, <2>4, <2>5, <2>6
  <2> QED
    BY <2>8, <2>9
<1>7. CASE ~(thread[e] \in GPUThread /\ Len(partners[e]) = 1)
  <2>1. thread'[e] = thread[e] /\ partners' = partners
    BY <1>1, <1>2
  <2>2. Cover(e, partners) = {e} \cup ParentsReached(e) /\ Cover(e, partners)' = {e} \cup ParentsReached(e)'
    BY <1>7, <2>1 DEF Cover
  <2> QED
    BY <1>5, <2>2
<1> QED
  BY <1>6, <1>7

LEMMA Counting ==
  ASSUME NEW S, IsFiniteSet(S), NEW x
  PROVE  /\ Cardinality(S) \in Nat
         /\ x \notin S => Cardinality(S \cup {x}) = Cardinality(S) + 1
         /\ x \in S => Cardinality(S) > 0 /\ Cardinality(S \ {x}) = Cardinality(S) - 1
         /\ Cardinality(S) = 0 <=> S = {}
<1>1. Cardinality(S) \in Nat /\ (Cardinality(S) = 0 <=> S = {})
  BY FS_CardinalityType, FS_EmptySet
<1>2. x \notin S => Cardinality(S \cup {x}) = Cardinality(S) + 1
  BY FS_AddElement
<1>3. x \in S => Cardinality(S) > 0 /\ Cardinality(S \ {x}) = Cardinality(S) - 1
  BY <1>1, FS_RemoveElement
<1> QED
  BY <1>1, <1>2, <1>3

LEMMA CountsFinite ==
  ASSUME TypeInv, NEW c
  PROVE  IsFiniteSet(Waiting(c)) /\ IsFiniteSet(Locking(c))
<1>1. IsFiniteSet(Waiting(c))
  BY ADEventAssumption, FS_Subset DEF Waiting
<1>2. Locking(c) \in SUBSET Call
  BY DEF Locking, TypeInv, TypeOK
<1> QED
  BY <1>1, <1>2, CallsFinite

(* A count of 0: nothing that waits or is locked needs the call.            *)
LEMMA Unneeded ==
  ASSUME TypeInv, RefCountExact, NEW c \in live
  PROVE  refs[c] = 0 <=> Waiting(c) = {} /\ Locking(c) = {}
<1>1. IsFiniteSet(Waiting(c)) /\ IsFiniteSet(Locking(c))
  BY CountsFinite
<1>2. /\ Cardinality(Waiting(c)) \in Nat /\ (Cardinality(Waiting(c)) = 0 <=> Waiting(c) = {})
      /\ Cardinality(Locking(c)) \in Nat /\ (Cardinality(Locking(c)) = 0 <=> Locking(c) = {})
  BY <1>1, Counting
<1> QED
  BY <1>2 DEF RefCountExact
(* Whoever waits or is locked can be released: the process goes on.         *)
LEMMA CanRelease ==
  ASSUME TypeInv, RefCountExact, NEW e \in Call, e \in live,
         e \in locked \/ \E k \in CorrID : unmatched[k] = e
  PROVE  CanUnprotect(Cover(e, partners))
<1> SUFFICES ASSUME NEW c \in Cover(e, partners) PROVE refs[c] > 0
  BY DEF CanUnprotect
<1>1. c \in live
  BY CoverAlive DEF TypeInv
<1>2. Waiting(c) # {} \/ Locking(c) # {}
  <2>1. CASE e \in locked
    BY <2>1 DEF Locking
  <2>2. CASE \E k \in CorrID : unmatched[k] = e
    <3>1. PICK k \in CorrID : unmatched[k] = e
      BY <2>2
    <3>2. k \in Waiting(c)
      BY <3>1, ADEventAssumption DEF Waiting
    <3> QED
      BY <3>2
  <2> QED
    BY <2>1, <2>2
<1>3. refs[c] # 0 /\ refs[c] \in Nat
  BY <1>1, <1>2, Unneeded DEF TypeInv, TypeOK
<1> QED
  BY <1>3

(* Steps that leave counts and protections alone.                           *)
LEMMA GCQuiet ==
  ASSUME GCInv, UNCHANGED <<nCalls, live, thread, above, refs, partners, unmatched, locked>>,
         \A c \in locked : done'[c], toVisit' \subseteq live, MatchInv'
  PROVE  GCInv'
<1>1. \A e : Cover(e, partners)' = Cover(e, partners)
  BY CoverSame
<1>2. \A c : Waiting(c)' = Waiting(c) /\ Locking(c)' = Locking(c)
  BY <1>1 DEF Waiting, Locking
<1> QED
  BY <1>2 DEF GCInv, OrderInv, RefCountExact, UnmatchedLineAlive

LEMMA GCEnter ==
  ASSUME TypeInv, StackInv, CarryInv, PairInv, GCInv, NEW t \in Thread, Enter(t)
  PROVE  GCInv'
<1>0. PICK c : c = nCalls + 1
  OBVIOUS
<1>1. /\ nCalls \in Nat /\ c \in Call /\ live' = live \cup {c} /\ nCalls' = c /\ op' = "idle"
      /\ \A x \in live : x \in Call /\ x < c
      /\ \A x \in Call : x \in Nat
      /\ UNCHANGED <<refs, partners, unmatched, locked, done, toVisit>>
  BY <1>0, EnterIs
<1>2. \A e \in live : Cover(e, partners)' = Cover(e, partners) /\ c \notin Cover(e, partners)
  BY <1>0, CoverEnter DEF GCInv
<1>3. \A k \in CorrID : unmatched[k] # NoCall => unmatched[k] \in live
  BY DEF GCInv, UnmatchedLineAlive
<1>4. c \notin locked
  BY <1>0, <1>1 DEF GCInv, OrderInv, StackInv
<1>5. ASSUME NEW x \in live'
      PROVE  refs'[x] = (Cardinality(Waiting(x)) + Cardinality(Locking(x)))'
  <2>1. Waiting(x)' = Waiting(x) /\ Locking(x)' = Locking(x)
    BY <1>1, <1>2, <1>3, <1>4 DEF Waiting, Locking
  <2>2. CASE x \in live
    BY <1>1, <2>1, <2>2 DEF GCInv, RefCountExact
  <2>3. CASE x = c
    <3>1. refs[c] = 0
      BY <1>0, <1>1 DEF GCInv, OrderInv
    <3>2. Waiting(x) = {} /\ Locking(x) = {}
      BY <1>2, <1>3, <2>3 DEF Waiting, Locking
    <3>3. Cardinality(Waiting(x)) = 0 /\ Cardinality(Locking(x)) = 0
      BY <3>2, FS_EmptySet
    <3> QED
      BY <1>1, <2>1, <2>3, <3>1, <3>3
  <2> QED
    BY <1>1, <2>2, <2>3
<1>6. /\ above \in [Call -> SUBSET Call]
      /\ above' = [above EXCEPT ![c] = IF stack[t] = <<>> THEN {} ELSE {Top(stack[t])} \cup above[Top(stack[t])]]
  BY <1>0 DEF Enter, TypeInv, TypeOK
<1>7. \A x \in Call : \A a \in above'[x] : a < x
  <2>1. ASSUME NEW x \in Call, x # c, NEW a \in above'[x] PROVE a < x
    BY <1>1, <1>6, <2>1 DEF GCInv, OrderInv
  <2>2. ASSUME NEW a \in above'[c] PROVE a < c
    <3>1. stack[t] # <<>>
      BY <1>1, <1>6, <2>2
    <3>2. Top(stack[t]) \in live
      BY <3>1, TopIsLast DEF Open, CallsOf, TypeInv, StackInv
    <3>3. PICK m \in live : m = Top(stack[t])
      BY <3>2
    <3>4. a = m \/ a \in above[m]
      BY <1>1, <1>6, <2>2, <3>1, <3>3
    <3>5. m \in Call /\ m < c /\ above[m] \subseteq Call
      BY <1>1, <1>6
    <3>6. a \in Call /\ (a = m \/ a < m)
      BY <3>4, <3>5 DEF GCInv, OrderInv
    <3> QED
      BY <1>1, <3>5, <3>6
  <2> QED
    BY <2>1, <2>2
<1>8. \A x \in Call : x > nCalls' => refs'[x] = 0
  BY <1>0, <1>1 DEF GCInv, OrderInv
<1>9. UnmatchedLineAlive'
  <2> SUFFICES ASSUME NEW k \in CorrID, unmatched[k] # NoCall
               PROVE  {unmatched[k]} \cup above'[unmatched[k]] \subseteq live'
    BY <1>1 DEF UnmatchedLineAlive
  <2>1. {unmatched[k]} \cup above[unmatched[k]] \subseteq live
    BY DEF GCInv, UnmatchedLineAlive
  <2>2. above'[unmatched[k]] = above[unmatched[k]]
    BY <1>1, <1>6, <2>1
  <2> QED
    BY <1>1, <2>1, <2>2
<1> QED
  BY <1>1, <1>5, <1>7, <1>8, <1>9 DEF GCInv, OrderInv, MatchInv, RefCountExact

LEMMA GCExit ==
  ASSUME TypeInv, StackInv, CarryInv, GCInv, NEW t \in Thread, NEW K \in SUBSET CorrID, Exit(t, K)
  PROVE  GCInv'
<1>0. PICK c : c = Top(stack[t])
  OBVIOUS
<1>1. /\ c \in Call /\ c \in live /\ ~done[c] /\ above[c] \subseteq live /\ current' = c
      /\ \A d \in Call : done'[d] <=> (d = c \/ done[d])
      /\ UNCHANGED <<nCalls, live, thread, above, refs, partners, unmatched, locked, purgeVars>>
  BY <1>0, ExitIs
<1>2. c \notin locked /\ \A d \in locked : done'[d]
  BY <1>1 DEF GCInv, OrderInv, TypeInv, TypeOK
<1> QED
  BY <1>1, <1>2, GCQuiet DEF GCInv, MatchInv, OrderInv, purgeVars
LEMMA GCKeep ==
  ASSUME TypeInv, StackInv, CarryInv, PairInv, GCInv, NEW k \in CorrID, KeepUnmatched(k)
  PROVE  GCInv'
<1> DEFINE S == Cover(current, partners)
<1>1. /\ op = "match" /\ k \in pending /\ unmatched[k] = NoCall
      /\ refs' = Protected(refs, S)
      /\ unmatched' = [unmatched EXCEPT ![k] = current]
      /\ UNCHANGED <<nCalls, live, thread, above, done, partners, locked, op, current, toVisit>>
  BY DEF KeepUnmatched, callVars, purgeVars
<1>2. /\ {current} \cup above[current] \subseteq live /\ current \in Call /\ current # NoCall
      /\ S \subseteq live /\ live \subseteq 1 .. nCalls /\ nCalls \in Nat
  <2>1. {current} \cup above[current] \subseteq live /\ current \in Call
    BY <1>1 DEF GCInv, MatchInv, TypeInv, TypeOK
  <2>2. S \subseteq live
    BY <2>1, CoverAlive DEF TypeInv
  <2> HIDE DEF S
  <2> QED
    BY <2>1, <2>2, ADEventAssumption DEF StackInv, TypeInv, TypeOK
<1>3. \A e : Cover(e, partners)' = Cover(e, partners)
  BY <1>1, CoverSame
<1>4. unmatched \in [CorrID -> Call \cup {NoCall}] /\ refs \in [Call -> Nat] /\ live \subseteq Call
  BY DEF TypeInv, TypeOK
<1>5. ASSUME NEW c \in live
      PROVE  refs'[c] = (Cardinality(Waiting(c)) + Cardinality(Locking(c)))'
  <2>1. Locking(c)' = Locking(c)
    BY <1>1, <1>3 DEF Locking
  <2>2. k \notin Waiting(c)
    BY <1>1 DEF Waiting
  <2>3. Waiting(c)' = IF c \in S THEN Waiting(c) \cup {k} ELSE Waiting(c)
    BY <1>1, <1>2, <1>3, <1>4 DEF Waiting
  <2>4. refs'[c] = IF c \in S THEN refs[c] + 1 ELSE refs[c]
    BY <1>1, <1>4 DEF Protected
  <2>5. /\ refs[c] = Cardinality(Waiting(c)) + Cardinality(Locking(c))
        /\ Cardinality(Waiting(c)) \in Nat /\ Cardinality(Locking(c)) \in Nat
        /\ Cardinality(Waiting(c) \cup {k}) = Cardinality(Waiting(c)) + 1
    BY <2>2, CountsFinite, Counting DEF GCInv, RefCountExact
  <2> HIDE DEF S
  <2> QED
    BY <2>1, <2>3, <2>4, <2>5
<1>6. \A c \in Call : c > nCalls => refs'[c] = 0
  <2> SUFFICES ASSUME NEW c \in Call, c > nCalls PROVE refs'[c] = 0
    OBVIOUS
  <2>1. c \notin S
    <3> HIDE DEF S
    <3> QED
      BY <1>2 DEF Call
  <2>2. refs'[c] = refs[c]
    BY <1>1, <1>4, <2>1 DEF Protected
  <2> QED
    BY <2>2 DEF GCInv, OrderInv
<1>7. UnmatchedLineAlive'
  BY <1>1, <1>2, <1>4 DEF UnmatchedLineAlive, GCInv
<1> HIDE DEF S
<1>8. OrderInv' /\ MatchInv'
  BY <1>1, <1>6 DEF GCInv, OrderInv, MatchInv
<1> QED
  BY <1>1, <1>5, <1>7, <1>8 DEF GCInv, RefCountExact

LEMMA GCMatch ==
  ASSUME TypeInv, StackInv, CarryInv, PairInv, LaunchInv, GCInv, NEW k \in CorrID, MatchPartner(k)
  PROVE  GCInv'
<1>0. PICK e : e = unmatched[k]
  OBVIOUS
<1>1. /\ op = "match" /\ e \in live /\ e \in Call /\ e # NoCall /\ current \in Call /\ e # current
      /\ \A a \in Call : a # e /\ a # current => partners'[a] = partners[a]
  BY <1>0, MatchIs, ADEventAssumption
<1>2. thread[e] \notin GPUThread
  BY <1>0, <1>1 DEF LaunchInv
<1> DEFINE S == Cover(e, partners)
<1>3. Cover(e, Partnered(k)) = S
  BY <1>2 DEF Cover
<1>4. /\ refs' = Unprotected(refs, S) /\ CanUnprotect(S)
      /\ unmatched' = [unmatched EXCEPT ![k] = NoCall]
      /\ UNCHANGED <<nCalls, live, thread, above, done, locked, op, current, toVisit>>
  BY <1>0, <1>3 DEF MatchPartner, callVars, purgeVars
<1>5. unmatched \in [CorrID -> Call \cup {NoCall}] /\ refs \in [Call -> Nat] /\ live \subseteq Call
  BY DEF TypeInv, TypeOK
<1>6. ASSUME NEW x, (x \in locked /\ x \in live) \/ (\E j \in CorrID : unmatched[j] = x /\ x # NoCall)
      PROVE  Cover(x, partners)' = Cover(x, partners)
  <2>1. x \in Call
    BY <1>5, <1>6
  <2>2. CASE thread[x] \notin GPUThread
    BY <1>4, <2>2, CoverSame
  <2>3. CASE thread[x] \in GPUThread
    <3>1. x \in locked
      BY <1>6, <2>3 DEF LaunchInv
    <3>2. x # current /\ x # e
      BY <1>1, <1>2, <2>3, <3>1 DEF GCInv, MatchInv
    <3>3. partners'[x] = partners[x]
      BY <1>1, <2>1, <3>2
    <3> QED
      BY <1>4, <3>3, CoverSame
  <2> QED
    BY <2>2, <2>3
<1>7. ASSUME NEW c \in live
      PROVE  refs'[c] = (Cardinality(Waiting(c)) + Cardinality(Locking(c)))'
  <2>1. Locking(c)' = Locking(c)
    BY <1>4, <1>6 DEF Locking
  <2>2. c \in S <=> k \in Waiting(c)
    BY <1>0, <1>1 DEF Waiting
  <2>3. Waiting(c)' = Waiting(c) \ {k}
    <3>1. \A j \in CorrID : j # k => unmatched'[j] = unmatched[j]
      BY <1>4, <1>5
    <3>2. unmatched'[k] = NoCall
      BY <1>4, <1>5
    <3>4. ASSUME NEW j \in CorrID, j # k PROVE j \in Waiting(c)' <=> j \in Waiting(c)
      <4>1. PICK x : x = unmatched[j]
        OBVIOUS
      <4>2. unmatched'[j] = x
        BY <3>1, <3>4, <4>1
      <4>3. x # NoCall => Cover(x, partners)' = Cover(x, partners)
        BY <1>6, <4>1
      <4>4. j \in Waiting(c)' <=> x # NoCall /\ c \in Cover(x, partners)'
        BY <4>2 DEF Waiting
      <4>5. j \in Waiting(c) <=> x # NoCall /\ c \in Cover(x, partners)
        BY <4>1 DEF Waiting
      <4> QED
        BY <4>3, <4>4, <4>5
    <3>5. k \notin Waiting(c)'
      BY <3>2 DEF Waiting
    <3>6. Waiting(c) \subseteq CorrID /\ Waiting(c)' \subseteq CorrID
      BY DEF Waiting
    <3> QED
      BY <3>4, <3>5, <3>6
  <2>4. refs'[c] = IF c \in S THEN refs[c] - 1 ELSE refs[c]
    BY <1>4, <1>5 DEF Unprotected
  <2>5. /\ refs[c] = Cardinality(Waiting(c)) + Cardinality(Locking(c))
        /\ Cardinality(Waiting(c)) \in Nat /\ Cardinality(Locking(c)) \in Nat
        /\ k \in Waiting(c) => Cardinality(Waiting(c) \ {k}) = Cardinality(Waiting(c)) - 1
    BY CountsFinite, Counting DEF GCInv, RefCountExact
  <2>6. k \notin Waiting(c) => Waiting(c) \ {k} = Waiting(c)
    OBVIOUS
  <2> HIDE DEF S
  <2>7. CASE c \in S
    BY <2>1, <2>2, <2>3, <2>4, <2>5, <2>7
  <2>8. CASE c \notin S
    BY <2>1, <2>2, <2>3, <2>4, <2>5, <2>6, <2>8
  <2> QED
    BY <2>7, <2>8
<1>8. \A c \in Call : c > nCalls => refs'[c] = 0
  <2> SUFFICES ASSUME NEW c \in Call, c > nCalls PROVE refs'[c] = 0
    OBVIOUS
  <2>1. refs[c] = 0
    BY DEF GCInv, OrderInv
  <2>2. c \notin S
    BY <1>4, <2>1 DEF CanUnprotect
  <2> HIDE DEF S
  <2> QED
    BY <1>4, <1>5, <2>1, <2>2 DEF Unprotected
<1>9. UnmatchedLineAlive'
  BY <1>4, <1>5 DEF UnmatchedLineAlive, GCInv
<1> HIDE DEF S
<1>10. OrderInv' /\ MatchInv'
  BY <1>4, <1>8 DEF GCInv, OrderInv, MatchInv
<1> QED
  BY <1>4, <1>7, <1>9, <1>10 DEF GCInv, RefCountExact
(* PurgeUnlock: the line of a call that has got its label is released.      *)
LEMMA GCUnlock ==
  ASSUME TypeInv, StackInv, GCInv, NEW e \in Call, PurgeUnlock(e)
  PROVE  GCInv'
<1> DEFINE S == Cover(e, partners)
<1>1. /\ op = "purge" /\ e \in live /\ e \in locked
      /\ CanUnprotect(S) /\ refs' = Unprotected(refs, S) /\ locked' = locked \ {e}
      /\ UNCHANGED <<nCalls, live, thread, above, done, partners, unmatched, op, current, toVisit>>
  BY DEF PurgeUnlock, Visiting, MustUnlock, callVars, matchVars, purgeVars, GCInv, OrderInv
<1>2. refs \in [Call -> Nat] /\ live \subseteq Call
  BY DEF TypeInv, TypeOK
<1>3. \A d : Cover(d, partners)' = Cover(d, partners)
  BY <1>1, CoverSame
<1>4. ASSUME NEW c \in live
      PROVE  refs'[c] = (Cardinality(Waiting(c)) + Cardinality(Locking(c)))'
  <2>1. Waiting(c)' = Waiting(c)
    BY <1>1, <1>3 DEF Waiting
  <2>2. Locking(c)' = Locking(c) \ {e} /\ (e \in Locking(c) <=> c \in S)
    BY <1>1, <1>3 DEF Locking
  <2>3. refs'[c] = IF c \in S THEN refs[c] - 1 ELSE refs[c]
    BY <1>1, <1>2 DEF Unprotected
  <2>4. /\ refs[c] = Cardinality(Waiting(c)) + Cardinality(Locking(c))
        /\ Cardinality(Waiting(c)) \in Nat /\ Cardinality(Locking(c)) \in Nat
        /\ e \in Locking(c) => Cardinality(Locking(c) \ {e}) = Cardinality(Locking(c)) - 1
    BY CountsFinite, Counting DEF GCInv, RefCountExact
  <2>5. e \notin Locking(c) => Locking(c) \ {e} = Locking(c)
    OBVIOUS
  <2> HIDE DEF S
  <2>6. CASE c \in S
    BY <2>1, <2>2, <2>3, <2>4, <2>6
  <2>7. CASE c \notin S
    BY <2>1, <2>2, <2>3, <2>4, <2>5, <2>7
  <2> QED
    BY <2>6, <2>7
<1>5. ASSUME NEW c \in Call, c > nCalls
      PROVE  refs'[c] = 0
  <2>1. refs[c] = 0
    BY <1>5 DEF GCInv, OrderInv
  <2>2. c \notin S
    BY <1>1, <2>1 DEF CanUnprotect
  <2> HIDE DEF S
  <2> QED
    BY <1>1, <1>2, <2>1, <2>2 DEF Unprotected
<1>6. UnmatchedLineAlive'
  BY <1>1 DEF UnmatchedLineAlive, GCInv
<1> HIDE DEF S
<1>7. OrderInv' /\ MatchInv'
  BY <1>1, <1>5 DEF GCInv, OrderInv, MatchInv
<1> QED
  BY <1>1, <1>4, <1>6, <1>7 DEF GCInv, RefCountExact

(* PurgeLock: the line of a call without a label is protected.              *)
LEMMA GCLock ==
  ASSUME TypeInv, StackInv, GCInv, NEW e \in Call, PurgeLock(e)
  PROVE  GCInv'
<1> DEFINE S == Cover(e, partners)
<1>1. /\ op = "purge" /\ e \in live /\ e \notin locked /\ done[e]
      /\ refs' = Protected(refs, S) /\ locked' = locked \cup {e} /\ toVisit' = toVisit \ {e}
      /\ UNCHANGED <<nCalls, live, thread, above, done, partners, unmatched, op, current>>
  BY DEF PurgeLock, Visiting, callVars, matchVars, GCInv, OrderInv
<1>2. refs \in [Call -> Nat] /\ live \subseteq Call /\ live \subseteq 1 .. nCalls /\ nCalls \in Nat
  BY DEF TypeInv, TypeOK, StackInv
<1>3. \A d : Cover(d, partners)' = Cover(d, partners)
  BY <1>1, CoverSame
<1>4. ASSUME NEW c \in live
      PROVE  refs'[c] = (Cardinality(Waiting(c)) + Cardinality(Locking(c)))'
  <2>1. Waiting(c)' = Waiting(c)
    BY <1>1, <1>3 DEF Waiting
  <2>2. e \notin Locking(c) /\ Locking(c)' = IF c \in S THEN Locking(c) \cup {e} ELSE Locking(c)
    BY <1>1, <1>3 DEF Locking
  <2>3. refs'[c] = IF c \in S THEN refs[c] + 1 ELSE refs[c]
    BY <1>1, <1>2 DEF Protected
  <2>4. /\ refs[c] = Cardinality(Waiting(c)) + Cardinality(Locking(c))
        /\ Cardinality(Waiting(c)) \in Nat /\ Cardinality(Locking(c)) \in Nat
        /\ Cardinality(Locking(c) \cup {e}) = Cardinality(Locking(c)) + 1
    BY <2>2, CountsFinite, Counting DEF GCInv, RefCountExact
  <2> HIDE DEF S
  <2>5. CASE c \in S
    BY <2>1, <2>2, <2>3, <2>4, <2>5
  <2>6. CASE c \notin S
    BY <2>1, <2>2, <2>3, <2>4, <2>6
  <2> QED
    BY <2>5, <2>6
<1>5. S \subseteq live
  BY <1>1, CoverAlive DEF TypeInv
<1>6. ASSUME NEW c \in Call, c > nCalls
      PROVE  refs'[c] = 0
  <2>1. refs[c] = 0
    BY <1>6 DEF GCInv, OrderInv
  <2>2. c \notin S
    <3> HIDE DEF S
    <3> QED
      BY <1>2, <1>5, <1>6
  <2> HIDE DEF S
  <2> QED
    BY <1>1, <1>2, <2>1, <2>2 DEF Protected
<1>7. UnmatchedLineAlive'
  BY <1>1 DEF UnmatchedLineAlive, GCInv
<1> HIDE DEF S
<1>8. OrderInv' /\ MatchInv'
  BY <1>1, <1>6 DEF GCInv, OrderInv, MatchInv
<1> QED
  BY <1>1, <1>4, <1>7, <1>8 DEF GCInv, RefCountExact

(* PurgeErase: what is freed is needed by nothing that waits or is locked.  *)
LEMMA ErasedUnneeded ==
  ASSUME TypeInv, GCInv, NEW c \in Call, PurgeErase(c)
  PROVE  /\ c \in live /\ done[c] /\ labelled[c] /\ c \notin locked
         /\ Waiting(c) = {} /\ Locking(c) = {}
<1>1. c \in live /\ refs[c] = 0 /\ done[c] /\ labelled[c] /\ c \notin locked
  BY DEF PurgeErase, Visiting, MustUnlock, CanDelete, GCInv, OrderInv
<1> QED
  BY <1>1, Unneeded DEF GCInv

LEMMA GCErase ==
  ASSUME TypeInv, StackInv, GCInv, NEW c \in Call, PurgeErase(c)
  PROVE  GCInv'
<1>1. /\ op = "purge" /\ c \in live /\ live' = live \ {c} /\ toVisit' = toVisit \ {c}
      /\ UNCHANGED <<nCalls, thread, above, done, refs, partners, unmatched, locked, op, current>>
  BY ErasedUnneeded DEF PurgeErase, Visiting, callVars, matchVars
<1>2. c \notin locked /\ Waiting(c) = {} /\ Locking(c) = {}
  BY ErasedUnneeded
<1>3. /\ unmatched \in [CorrID -> Call \cup {NoCall}] /\ live \subseteq Call /\ TypeOK
      /\ \A k \in CorrID : unmatched[k] # NoCall => {unmatched[k]} \cup above[unmatched[k]] \subseteq live
  BY DEF TypeInv, TypeOK, GCInv, UnmatchedLineAlive
<1>4. ASSUME NEW e \in live, c \notin Cover(e, partners)
      PROVE  Cover(e, partners)' = Cover(e, partners)
  BY <1>1, <1>3, <1>4, CoverFree
<1>5. ASSUME NEW k \in CorrID, unmatched[k] # NoCall
      PROVE  c \notin Cover(unmatched[k], partners)
  BY <1>2, <1>5 DEF Waiting
<1>6. ASSUME NEW e \in locked \cap live
      PROVE  c \notin Cover(e, partners) /\ e # c
  BY <1>2 DEF Locking
<1>7. ASSUME NEW x \in live'
      PROVE  refs'[x] = (Cardinality(Waiting(x)) + Cardinality(Locking(x)))'
  <2>1. Waiting(x)' = Waiting(x)
    BY <1>1, <1>3, <1>4, <1>5 DEF Waiting
  <2>2. locked' \cap live' = locked \cap live
    BY <1>1, <1>2
  <2>3. Locking(x)' = Locking(x)
    BY <2>2, <1>4, <1>6 DEF Locking
  <2> QED
    BY <1>1, <2>1, <2>3 DEF GCInv, RefCountExact
<1>8. UnmatchedLineAlive'
  <2> SUFFICES ASSUME NEW k \in CorrID, unmatched[k] # NoCall
               PROVE  {unmatched[k]} \cup above[unmatched[k]] \subseteq live \ {c}
    BY <1>1 DEF UnmatchedLineAlive
  <2>1. PICK u : u = unmatched[k]
    OBVIOUS
  <2>2. u \in Call /\ {u} \cup above[u] \subseteq live /\ c \notin Cover(u, partners)
    BY <1>3, <1>5, <2>1
  <2>3. u # c /\ c \notin above[u]
    BY <1>3, <2>2, CoverAlive DEF Cover
  <2> QED
    BY <2>1, <2>2, <2>3
<1>9. OrderInv' /\ MatchInv'
  BY <1>1 DEF GCInv, OrderInv, MatchInv
<1> QED
  BY <1>7, <1>8, <1>9 DEF GCInv, RefCountExact

LEMMA GCStep ==
  ASSUME TypeInv, StackInv, CarryInv, PairInv, LaunchInv, GCInv, ~TestAPI, [Next]_vars
  PROVE  GCInv'
<1> USE DEF callVars, matchVars, purgeVars
<1>0. toVisit \subseteq live /\ \A c \in locked : done[c]
  BY DEF GCInv, OrderInv
<1>1. ASSUME NEW k \in CorrID, MatchFails(k) PROVE GCInv'
  <2>1. MatchInv'
    BY <1>1 DEF MatchFails, MatchInv
  <2> QED
    BY <1>0, <1>1, <2>1, GCQuiet DEF MatchFails
<1>2. CASE MatchDone
  <2>1. MatchInv'
    BY <1>2 DEF MatchDone, MatchInv
  <2> QED
    BY <1>0, <1>2, <2>1, GCQuiet DEF MatchDone
<1>3. ASSUME NEW S \in SUBSET Unlabelled, Analyze(S) PROVE GCInv'
  <2>1. MatchInv'
    BY <1>3 DEF Analyze, MatchInv
  <2> QED
    BY <1>0, <1>3, <2>1, GCQuiet DEF Analyze
<1>4. CASE PurgeBegin
  <2>1. MatchInv'
    BY <1>4 DEF PurgeBegin, MatchInv
  <2> QED
    BY <1>0, <1>4, <2>1, GCQuiet DEF PurgeBegin
<1>5. ASSUME NEW t \in Thread, PurgeThread(t) PROVE GCInv'
  <2>1. MatchInv'
    BY <1>5 DEF PurgeThread, MatchInv
  <2>2. toVisit' \subseteq live
    BY <1>5 DEF PurgeThread, OutsideWindow, CallsOf
  <2> QED
    BY <1>0, <1>5, <2>1, <2>2, GCQuiet DEF PurgeThread
<1>6. ASSUME NEW c \in Call, PurgeFails(c) PROVE GCInv'
  <2>1. MatchInv'
    BY <1>6 DEF PurgeFails, MatchInv
  <2> QED
    BY <1>0, <1>6, <2>1, GCQuiet DEF PurgeFails
<1>7. ASSUME NEW c \in Call, PurgeKeep(c) PROVE GCInv'
  <2>1. MatchInv'
    BY <1>7 DEF PurgeKeep, Visiting, MatchInv
  <2> QED
    BY <1>0, <1>7, <2>1, GCQuiet DEF PurgeKeep
<1>8. CASE PurgeEnd
  <2>1. MatchInv'
    BY <1>8 DEF PurgeEnd, MatchInv
  <2> QED
    BY <1>0, <1>8, <2>1, GCQuiet DEF PurgeEnd
<1>9. CASE UNCHANGED vars
  <2>1. MatchInv'
    BY <1>9 DEF vars, MatchInv, GCInv
  <2> QED
    BY <1>0, <1>9, <2>1, GCQuiet DEF vars
<1>10. CASE Match
  BY <1>1, <1>2, <1>10, GCKeep, GCMatch DEF Match
<1>11. CASE Purge
  BY <1>4, <1>5, <1>6, <1>7, <1>8, <1>11, GCUnlock, GCLock, GCErase DEF Purge
<1> QED
  BY <1>3, <1>9, <1>10, <1>11, GCEnter, GCExit DEF Next, TrimCallList, Clear, AddCall
LEMMA GCInit ==
  ASSUME Init
  PROVE  LaunchInv /\ GCInv
<1>1. /\ live = {} /\ nCalls = 0 /\ op = "idle" /\ locked = {} /\ toVisit = {}
      /\ above = [c \in Call |-> {}] /\ refs = [c \in Call |-> 0]
      /\ carried = [c \in Call |-> {}] /\ unmatched = [k \in CorrID |-> NoCall]
  BY DEF Init
<1>2. \A k : Carriers(k) = {}
  BY <1>1 DEF Carriers
<1>3. LaunchInv
  BY <1>1, <1>2 DEF LaunchInv
<1>4. OrderInv
  BY <1>1 DEF OrderInv
<1>5. MatchInv /\ RefCountExact /\ UnmatchedLineAlive
  BY <1>1 DEF MatchInv, RefCountExact, UnmatchedLineAlive
<1> QED
  BY <1>3, <1>4, <1>5 DEF GCInv

(* m_execDataMap, as long as freed memory keeps its contents.               *)
ExecInv == FreedIntact /\ op \notin {"purge", "terminated"} => execData \subseteq live

LEMMA ExecStep ==
  ASSUME TypeInv, StackInv, CarryInv, ExecInv, ~TestAPI, [Next]_vars
  PROVE  ExecInv'
<1> USE DEF callVars, matchVars, purgeVars
<1>1. ASSUME NEW t \in Thread, Enter(t) PROVE ExecInv'
  BY <1>1 DEF Enter, ExecInv
<1>2. ASSUME NEW t \in Thread, NEW K \in SUBSET CorrID, Exit(t, K) PROVE ExecInv'
  <2>0. PICK c : c = Top(stack[t])
    OBVIOUS
  <2>1. c \in live /\ live' = live /\ execData' = execData \cup {c} /\ op = "idle"
    BY <1>2, <2>0, ExitIs
  <2> QED
    BY <2>1 DEF ExecInv
<1>3. CASE Match
  <2>1. op = "match" /\ UNCHANGED <<live, execData>>
    BY <1>3 DEF Match, KeepUnmatched, MatchPartner, MatchFails, MatchDone
  <2> QED
    BY <2>1 DEF ExecInv
<1>4. ASSUME NEW S \in SUBSET Unlabelled, Analyze(S) PROVE ExecInv'
  BY <1>4 DEF Analyze, ExecInv
<1>5. CASE PurgeEnd
  <2>1. FreedIntact => execData' = Unlabelled \ (Call \ live)
    BY <1>5 DEF PurgeEnd, ClearUnlabeled
  <2>2. execData \subseteq Call /\ live' = live
    BY <1>5 DEF PurgeEnd, TypeInv, TypeOK
  <2> QED
    BY <2>1, <2>2 DEF ExecInv, Unlabelled
<1>6. CASE Purge /\ ~PurgeEnd
  <2>1. op' \in {"purge", "terminated"}
    BY <1>6 DEF Purge, PurgeBegin, PurgeThread, Visiting, PurgeUnlock, PurgeFails, PurgeErase,
       PurgeLock, PurgeKeep
  <2> QED
    BY <2>1 DEF ExecInv
<1>7. CASE UNCHANGED vars
  BY <1>7 DEF vars, ExecInv
<1> QED
  BY <1>1, <1>2, <1>3, <1>4, <1>5, <1>6, <1>7 DEF Next, TrimCallList, Clear, AddCall

(* What the event manager keeps up, when kernels complete after launches    *)
(* and only the driver uses it.                                             *)
ManagerInv == TypeInv /\ StackInv /\ CarryInv /\ PairInv /\ LaunchInv /\ GCInv

LEMMA ManagerInit == Init => ManagerInv
  BY TypeInit, StackInit, PairInit, GCInit DEF ManagerInv

LEMMA ManagerStep ==
  ASSUME LaunchFirst, ~TestAPI
  PROVE  ManagerInv /\ [Next]_vars => ManagerInv'
  BY TypeNext, StackNext, CarryStep, PairStep, LaunchStep, GCStep DEF ManagerInv

(* stackProtectGC, stackUnProtectGC: every reference count is the number of *)
(* calls that wait or are locked over a line the call is on, so that no     *)
(* protection is leaked, given back twice or over another line; and the     *)
(* call stacks, m_execDataMap and m_unmatchedCorrelationID hold no          *)
(* iterator to a freed node.  (Kernels that complete before their launch    *)
(* break the counts: a run shows it.)                                       *)
THEOREM CollectorSafe ==
  ASSUME LaunchFirst, ~TestAPI, FreedIntact
  PROVE  Spec => []GarbageCollectorSafe
<1>1. Init => ManagerInv /\ ExecInv
  BY ManagerInit DEF Init, ExecInv
<1>2. ManagerInv /\ ExecInv /\ [Next]_vars => (ManagerInv /\ ExecInv)'
  BY ManagerStep, ExecStep DEF ManagerInv
<1>3. ManagerInv /\ ExecInv => GarbageCollectorSafe
  <2> SUFFICES ASSUME ManagerInv, ExecInv PROVE GarbageCollectorSafe
    OBVIOUS
  <2>1. RefCountExact /\ UnmatchedLineAlive
    BY DEF ManagerInv, GCInv
  <2>2. \A t \in Thread : \A i \in 1 .. Len(stack[t]) : stack[t][i] \in live
    <3>1. \A t \in Thread : {stack[t][i] : i \in 1 .. Len(stack[t])} \subseteq live
      BY DEF ManagerInv, StackInv, StackIsOpenLine, Open, CallsOf
    <3> QED
      BY <3>1
  <2>3. \A k \in CorrID : unmatched[k] # NoCall => unmatched[k] \in live
    BY <2>1 DEF UnmatchedLineAlive
  <2>4. op \notin {"purge", "terminated"} => execData \subseteq live
    BY DEF ExecInv
  <2> QED
    BY <2>1, <2>2, <2>3, <2>4 DEF GarbageCollectorSafe, NothingDangling
<1> QED
  BY <1>1, <1>2, <1>3, PTL DEF Spec

(* purgeCallList: a node is freed only when its call is complete and        *)
(* labelled and nothing that waits for its partner, or is locked for lack   *)
(* of a label, needs it, whatever was protected and released before.        *)
THEOREM FreedUnneeded ==
  ASSUME LaunchFirst, ~TestAPI
  PROVE  Spec => FreedOnlyWhenUnneeded
<1> DEFINE Step == \A c \in live \ live' :
                      \/ /\ done[c] /\ labelled[c]
                         /\ Waiting(c) = {} /\ Locking(c) \subseteq {c}
                      \/ live' = {} /\ TestAPI
<1>1. ManagerInv /\ [Next]_vars => Step
  <2> SUFFICES ASSUME ManagerInv, [Next]_vars PROVE Step
    OBVIOUS
  <2>1. CASE \E c \in Call : PurgeErase(c)
    <3>1. PICK c \in Call : PurgeErase(c)
      BY <2>1
    <3>2. live' = live \ {c}
      BY <3>1 DEF PurgeErase
    <3>3. done[c] /\ labelled[c] /\ Waiting(c) = {} /\ Locking(c) = {}
      BY <3>1, ErasedUnneeded DEF ManagerInv
    <3> QED
      BY <3>2, <3>3
  <2>2. CASE ~\E c \in Call : PurgeErase(c)
    <3>1. live \subseteq live'
      BY <2>2 DEF Next, Enter, Exit, Match, KeepUnmatched, MatchPartner, MatchFails, MatchDone,
         Analyze, Purge, PurgeBegin, PurgeThread, PurgeUnlock, PurgeFails, PurgeLock, PurgeKeep,
         PurgeEnd, TrimCallList, Clear, AddCall, vars
    <3> QED
      BY <3>1
  <2> QED
    BY <2>1, <2>2
<1>2. Init => ManagerInv
  BY ManagerInit
<1>3. ManagerInv /\ [Next]_vars => ManagerInv'
  BY ManagerStep
<1>4. ManagerInv /\ [Next]_vars => [Step]_vars
  BY <1>1
<1>5. Spec => [][Step]_vars
  BY <1>2, <1>3, <1>4, PTL DEF Spec
<1> QED
  BY <1>5 DEF FreedOnlyWhenUnneeded

(* Neither a partner that was freed nor a count that is 0 already:          *)
(* the event manager never ends the process with a fatal error.             *)
THEOREM ManagerGoesOn ==
  ASSUME LaunchFirst, ~TestAPI
  PROVE  Spec => []NeverTerminates
<1>1. Init => ManagerInv /\ NeverTerminates
  BY ManagerInit DEF Init, NeverTerminates
<1>2. ManagerInv /\ NeverTerminates /\ [Next]_vars => NeverTerminates'
  <2> SUFFICES ASSUME ManagerInv, NeverTerminates, [Next]_vars PROVE NeverTerminates'
    OBVIOUS
  <2>1. ASSUME NEW k \in CorrID, MatchFails(k) PROVE FALSE
    <3>1. PICK e : e = unmatched[k]
      OBVIOUS
    <3>2. e # NoCall /\ e \in Call /\ e \in live
      BY <2>1, <3>1 DEF MatchFails, ManagerInv, TypeInv, TypeOK, GCInv, UnmatchedLineAlive
    <3>3. ~CanUnprotect(Cover(e, Partnered(k)))
      BY <2>1, <3>1, <3>2 DEF MatchFails
    <3>4. thread[e] \notin GPUThread
      BY <3>1, <3>2 DEF ManagerInv, LaunchInv
    <3>5. Cover(e, Partnered(k)) = Cover(e, partners)
      BY <3>4 DEF Cover
    <3>6. CanUnprotect(Cover(e, partners))
      BY <3>1, <3>2, CanRelease DEF ManagerInv, GCInv
    <3> QED
      BY <3>3, <3>5, <3>6
  <2>2. ASSUME NEW c \in Call, PurgeFails(c) PROVE FALSE
    <3>1. c \in live /\ c \in locked /\ ~CanUnprotect(Cover(c, partners))
      BY <2>2 DEF PurgeFails, Visiting, MustUnlock, ManagerInv, GCInv, OrderInv
    <3>2. CanUnprotect(Cover(c, partners))
      BY <3>1, CanRelease DEF ManagerInv, GCInv
    <3> QED
      BY <3>1, <3>2
  <2> QED
    BY <2>1, <2>2 DEF Next, Enter, Exit, Match, KeepUnmatched, MatchPartner, MatchDone,
       Analyze, Purge, PurgeBegin, PurgeThread, PurgeUnlock, PurgeErase, PurgeLock, PurgeKeep,
       PurgeEnd, TrimCallList, Clear, AddCall, vars, NeverTerminates
<1>3. ManagerInv /\ [Next]_vars => ManagerInv'
  BY ManagerStep
<1> QED
  BY <1>1, <1>2, <1>3, PTL DEF Spec
(* The counts do not depend on what freed memory holds: exact counts, and   *)
(* the lines of the calls that wait for their partner all in the list.      *)
THEOREM CountsExact ==
  ASSUME LaunchFirst, ~TestAPI
  PROVE  Spec => [](RefCountExact /\ UnmatchedLineAlive)
<1>1. ManagerInv => RefCountExact /\ UnmatchedLineAlive
  BY DEF ManagerInv, GCInv
<1> QED
  BY ManagerInit, ManagerStep, <1>1, PTL DEF Spec
-----------------------------------------------------------------------------
(* The window.                                                              *)

(* A set of calls has a most recent one. *)
LEMMA MostRecent ==
  ASSUME NEW S \in SUBSET Call, S # {}
  PROVE  \E m \in S : \A d \in S : d <= m
<1> DEFINE Later(x) == {d \in S : d > x}
           T == {Later(x) : x \in S}
           R == StrictSubsetOrdering(S)
<1>1. S \subseteq Nat
  BY DEF Call
<1>2. IsWellFoundedOn(R, SUBSET S)
  <2>1. IsFiniteSet(S)
    BY CallsFinite
  <2> QED
    BY <2>1, FS_StrictSubsetOrderingWellFounded, FS_FiniteSubsetsOfFinite
<1>3. T \subseteq SUBSET S /\ T # {}
  OBVIOUS
<1>4. \E z \in T : \A y \in T : ~(<<y, z>> \in R)
  <2> HIDE DEF T, R
  <2> QED
    BY <1>2, <1>3, WFMin
<1>5. PICK m \in S : \A y \in S : ~(<<Later(y), Later(m)>> \in R)
  BY <1>4
<1>6. ASSUME NEW d \in S, d > m PROVE FALSE
  <2>1. Later(d) \subseteq Later(m)
    <3>1. \A x \in S : x > d => x > m
      BY <1>1, <1>6
    <3> QED
      BY <3>1
  <2>2. d \in Later(m) /\ d \notin Later(d)
    BY <1>1, <1>6
  <2>3. <<Later(d), Later(m)>> \in R
    <3>1. Later(d) \in SUBSET S /\ Later(m) \in SUBSET S /\ Later(d) # Later(m)
      BY <2>2
    <3> HIDE DEF Later
    <3> QED
      BY <2>1, <3>1 DEF StrictSubsetOrdering
  <2> QED
    BY <1>5, <2>3
<1> QED
  BY <1>1, <1>6

Later(c) == {d \in CallsOf(thread[c]) : d > c}

(* The calls that the purge has still to visit are outside the window, and  *)
(* stay there, since they are visited in the order of ENTRY.                *)
WindowInv ==
  /\ op = "purge" => \A c \in toVisit : c \in live /\ Cardinality(Later(c)) >= WindowSize
  /\ op \notin {"purge", "terminated"} => toVisit = {}

LEMMA WindowQuiet ==
  ASSUME WindowInv, UNCHANGED <<live, thread, toVisit>>,
         op' = "purge" => op = "purge" \/ toVisit = {},
         op' \notin {"purge", "terminated"} => toVisit = {}
  PROVE  WindowInv'
<1>1. \A c : Later(c)' = Later(c)
  BY DEF Later, CallsOf
<1> QED
  BY <1>1 DEF WindowInv

LEMMA WindowStep ==
  ASSUME TypeInv, WindowInv, [Next]_vars
  PROVE  WindowInv'
<1> USE DEF callVars, matchVars, purgeVars
<1>1. CASE \/ \E t \in Thread : Enter(t)
           \/ \E t \in Thread, K \in SUBSET CorrID : Exit(t, K)
           \/ TrimCallList \/ Clear
           \/ \E t \in Thread, K \in SUBSET CorrID : AddCall(t, K)
  <2>1. toVisit' = toVisit /\ op \in {"idle", "analyzed"} /\ op' # "purge"
    BY <1>1 DEF Enter, Exit, TrimCallList, Clear, AddCall
  <2> QED
    BY <2>1 DEF WindowInv
<1>2. CASE Match \/ \E S \in SUBSET Unlabelled : Analyze(S)
  <2>1. UNCHANGED <<live, thread, toVisit>> /\ op \in {"idle", "match"} /\ op' # "purge"
    BY <1>2 DEF Match, KeepUnmatched, MatchPartner, MatchFails, MatchDone, Analyze
  <2> QED
    BY <2>1 DEF WindowInv
<1>3. CASE PurgeBegin
  <2>1. UNCHANGED <<live, thread, toVisit>> /\ op = "analyzed" /\ op' = "purge"
    BY <1>3 DEF PurgeBegin
  <2> QED
    BY <2>1 DEF WindowInv
<1>4. ASSUME NEW t \in Thread, PurgeThread(t) PROVE WindowInv'
  <2>1. UNCHANGED <<live, thread, op>> /\ op = "purge" /\ toVisit' = OutsideWindow(t)
    BY <1>4 DEF PurgeThread
  <2>2. \A c : Later(c)' = Later(c)
    BY <2>1 DEF Later, CallsOf
  <2>3. \A c \in OutsideWindow(t) : c \in live /\ Cardinality(Later(c)) >= WindowSize
    BY DEF OutsideWindow, Later, CallsOf
  <2> QED
    BY <2>1, <2>2, <2>3 DEF WindowInv
<1>5. ASSUME NEW c \in Call, PurgeErase(c) PROVE WindowInv'
  <2>1. /\ UNCHANGED <<thread, op>> /\ op = "purge" /\ live' = live \ {c} /\ toVisit' = toVisit \ {c}
        /\ \A d \in toVisit : c <= d
    BY <1>5 DEF PurgeErase, Visiting
  <2>2. toVisit \subseteq Nat /\ c \in Nat
    BY DEF TypeInv, TypeOK, Call
  <2>3. ASSUME NEW d \in toVisit' PROVE Later(d)' = Later(d)
    <3>1. d \in toVisit /\ ~(c > d)
      BY <2>1, <2>2
    <3> QED
      BY <2>1, <3>1 DEF Later, CallsOf
  <2> QED
    BY <2>1, <2>3 DEF WindowInv
<1>6. CASE \E c \in Call : PurgeUnlock(c) \/ PurgeFails(c) \/ PurgeLock(c) \/ PurgeKeep(c)
  <2>1. /\ UNCHANGED <<live, thread>> /\ op = "purge" /\ toVisit' \subseteq toVisit
        /\ op' \in {"purge", "terminated"}
    BY <1>6 DEF PurgeUnlock, PurgeFails, PurgeLock, PurgeKeep, Visiting
  <2>2. \A c : Later(c)' = Later(c)
    BY <2>1 DEF Later, CallsOf
  <2> QED
    BY <2>1, <2>2 DEF WindowInv
<1>7. CASE PurgeEnd
  <2>1. toVisit = {} /\ toVisit' = {} /\ op' = "idle"
    BY <1>7 DEF PurgeEnd
  <2> QED
    BY <2>1 DEF WindowInv
<1>8. CASE UNCHANGED vars
  BY <1>8, WindowQuiet DEF vars, WindowInv
<1> QED
  BY <1>1, <1>2, <1>3, <1>4, <1>5, <1>6, <1>7, <1>8 DEF Next, Purge

LEMMA TrimKeepsWindow ==
  ASSUME TypeInv, TrimCallList, NEW c \in live \ live'
  PROVE  Cardinality({d \in live' : thread[d] = thread[c] /\ d > c}) >= WindowSize
<1>1. PICK t : t = thread[c]
  OBVIOUS
<1> DEFINE S == OutsideWindow(t)
           Kept == {d \in live' : thread[d] = t /\ d > c}
<1>2. live \subseteq Call /\ Call \subseteq Nat /\ thread \in [Call -> Thread] /\ WindowSize \in Nat
  BY ADEventAssumption DEF TypeInv, TypeOK, Call
<1>3. live' = live \ {d \in UNION {OutsideWindow(u) : u \in Thread} : CanDelete(d) /\ done[d]}
  BY DEF TrimCallList
<1>4. \A u, d : d \in OutsideWindow(u) => d \in live /\ thread[d] = u
  BY DEF OutsideWindow, CallsOf
<1>5. c \in S
  BY <1>1, <1>3, <1>4
<1>6. PICK m \in S : \A d \in S : d <= m
  <2>1. S \in SUBSET Call /\ S # {}
    BY <1>2, <1>4, <1>5
  <2> HIDE DEF S
  <2> QED
    BY <2>1, MostRecent
<1>7. m \in Nat /\ c \in Nat /\ c <= m /\ Cardinality({d \in CallsOf(t) : d > m}) >= WindowSize
  BY <1>2, <1>4, <1>5, <1>6 DEF OutsideWindow
<1>8. {d \in CallsOf(t) : d > m} \subseteq Kept
  <2> SUFFICES ASSUME NEW d \in CallsOf(t), d > m PROVE d \in live' /\ thread[d] = t /\ d > c
    OBVIOUS
  <2>1. d \in live /\ thread[d] = t /\ d \in Nat
    BY <1>2 DEF CallsOf
  <2>2. d \notin S
    <3> HIDE DEF S
    <3> QED
      BY <1>6, <1>7, <2>1
  <2>3. d \in live'
    BY <1>3, <1>4, <2>1, <2>2
  <2>4. d > c
    BY <1>7, <2>1
  <2> QED
    BY <2>1, <2>3, <2>4
<1>9. IsFiniteSet(Kept)
  <2>1. Kept \in SUBSET Call
    BY <1>2, <1>3
  <2> QED
    BY <2>1, CallsFinite
<1>10. PICK A : A = {d \in CallsOf(t) : d > m}
  OBVIOUS
<1>11. /\ Cardinality(A) \in Nat /\ Cardinality(Kept) \in Nat /\ Cardinality(A) <= Cardinality(Kept)
  <2> HIDE DEF Kept
  <2> QED
    BY <1>8, <1>9, <1>10, FS_Subset, FS_CardinalityType
<1>12. Cardinality(Kept) >= WindowSize
  <2> HIDE DEF Kept
  <2> QED
    BY <1>2, <1>7, <1>10, <1>11
<1> QED
  BY <1>1, <1>12

(* purgeCallList and trimCallList: a call is freed only when the list keeps *)
(* WindowSize more recent ones of its thread, whatever else they free.      *)
THEOREM WindowIsKept == Spec => WindowKept
<1> DEFINE Step == \A c \in live \ live' :
                     \/ Cardinality({d \in live' : thread[d] = thread[c] /\ d > c}) >= WindowSize
                     \/ live' = {} /\ TestAPI
<1>1. TypeInv /\ WindowInv /\ [Next]_vars => Step
  <2> SUFFICES ASSUME TypeInv, WindowInv, [Next]_vars, NEW c \in live \ live'
               PROVE  \/ Cardinality({d \in live' : thread[d] = thread[c] /\ d > c}) >= WindowSize
                      \/ live' = {} /\ TestAPI
    OBVIOUS
  <2>1. CASE TrimCallList
    BY <2>1, TrimKeepsWindow
  <2>2. CASE Clear
    BY <2>2 DEF Clear
  <2>3. CASE \E e \in Call : PurgeErase(e)
    <3>1. PICK e \in Call : PurgeErase(e)
      BY <2>3
    <3>2. e = c /\ live' = live \ {c} /\ op = "purge" /\ c \in toVisit /\ c \in Nat
      BY <3>1 DEF PurgeErase, Visiting, TypeInv, TypeOK, Call
    <3>3. Cardinality(Later(c)) >= WindowSize
      BY <3>2 DEF WindowInv
    <3>4. {d \in live' : thread[d] = thread[c] /\ d > c} = Later(c)
      <4>1. ~(c > c)
        BY <3>2
      <4> QED
        BY <3>2, <4>1 DEF Later, CallsOf
    <3> QED
      BY <3>3, <3>4
  <2>4. CASE ~TrimCallList /\ ~Clear /\ ~\E e \in Call : PurgeErase(e)
    <3>1. live \subseteq live'
      BY <2>4 DEF Next, Enter, Exit, Match, KeepUnmatched, MatchPartner, MatchFails, MatchDone,
         Analyze, Purge, PurgeBegin, PurgeThread, PurgeUnlock, PurgeFails, PurgeLock, PurgeKeep,
         PurgeEnd, AddCall, vars
    <3> QED
      BY <3>1
  <2> QED
    BY <2>1, <2>2, <2>3, <2>4
<1>2. Init => TypeInv /\ WindowInv
  BY TypeInit DEF Init, WindowInv
<1>3. TypeInv /\ WindowInv /\ [Next]_vars => (TypeInv /\ WindowInv)'
  BY TypeNext, WindowStep
<1>4. TypeInv /\ WindowInv /\ [Next]_vars => [Step]_vars
  BY <1>1
<1>5. Spec => [][Step]_vars
  BY <1>2, <1>3, <1>4, PTL DEF Spec
<1> QED
  BY <1>5, PTL DEF WindowKept
-----------------------------------------------------------------------------
(* What the provenance of a call needs.                                     *)

(* The IDs of a call that have been examined. *)
Examined(c) == IF c = current THEN carried[c] \ pending ELSE carried[c]

(* A kernel has a partner for each of them: none of them waits.             *)
LenInv ==
  \A c \in Call : thread[c] \in GPUThread => Len(partners[c]) = Cardinality(Examined(c))

LEMMA NoPartnerYet ==
  ASSUME TypeInv, PairInv, NEW c \in Call, carried[c] = {}
  PROVE  Len(partners[c]) = 0
<1>1. partners[c] \in Seq(Call)
  BY DEF TypeInv, TypeOK
<1>2. ASSUME Len(partners[c]) # 0 PROVE FALSE
  <2>1. 1 \in DOMAIN partners[c] /\ partners[c][1] \in Call
    BY <1>1, <1>2
  <2>2. Among(partners, c, partners[c][1])
    BY <2>1 DEF Among
  <2> QED
    BY <2>1, <2>2 DEF PairInv
<1> QED
  BY <1>2

LEMMA LenQuiet ==
  ASSUME LenInv, UNCHANGED <<thread, partners, carried, pending>>,
         pending = {} \/ current' = current
  PROVE  LenInv'
<1>1. \A c : Examined(c)' = Examined(c)
  BY DEF Examined
<1> QED
  BY <1>1 DEF LenInv

LEMMA LenMatch ==
  ASSUME TypeInv, CarryInv, PairInv, LaunchInv, LenInv, NEW k \in CorrID, MatchPartner(k)
  PROVE  LenInv'
<1>0. PICK e : e = unmatched[k]
  OBVIOUS
<1>1. /\ e \in Call /\ current \in Call /\ e # current /\ k \in carried[current] /\ k \in pending
      /\ \A a \in Call : Len(partners'[a]) = IF a \in {e, current} THEN Len(partners[a]) + 1
                                             ELSE Len(partners[a])
  BY <1>0, MatchIs
<1>2. thread[e] \notin GPUThread
  BY <1>0, <1>1, ADEventAssumption DEF LaunchInv
<1>3. pending' = pending \ {k} /\ UNCHANGED <<thread, carried, current>>
  BY DEF MatchPartner, callVars
<1>4. ASSUME NEW c \in Call, thread[c] \in GPUThread
      PROVE  Len(partners'[c]) = Cardinality(Examined(c)')
  <2>1. c # e
    BY <1>2, <1>4
  <2>2. CASE c = current
    <3>1. Examined(c)' = Examined(c) \cup {k} /\ k \notin Examined(c)
      BY <1>1, <1>3, <2>2 DEF Examined
    <3>2. IsFiniteSet(Examined(c))
      <4>1. Examined(c) \subseteq CorrID
        BY DEF Examined, TypeInv, TypeOK
      <4> QED
        BY <4>1, ADEventAssumption, FS_Subset
    <3>3. Cardinality(Examined(c)') = Cardinality(Examined(c)) + 1
      BY <3>1, <3>2, Counting
    <3>4. Len(partners'[c]) = Len(partners[c]) + 1
      BY <1>1, <2>2
    <3> QED
      BY <1>4, <3>3, <3>4 DEF LenInv
  <2>3. CASE c # current
    <3>1. Examined(c)' = Examined(c)
      BY <1>3, <2>3 DEF Examined
    <3> QED
      BY <1>1, <1>4, <2>1, <2>3, <3>1 DEF LenInv
  <2> QED
    BY <2>2, <2>3
<1> QED
  BY <1>3, <1>4 DEF LenInv

LEMMA LenStep ==
  ASSUME ManagerInv, LenInv, ~TestAPI, [Next]_vars
  PROVE  LenInv'
<1> USE DEF ManagerInv
<1>1. ASSUME NEW t \in Thread, Enter(t) PROVE LenInv'
  <2>0. PICK c : c = nCalls + 1
    OBVIOUS
  <2>1. c \in Call /\ \A x \in Call : done[x] => x # c
    <3>1. c \in Call /\ nCalls \in Nat /\ Call \subseteq Nat
      BY <1>1, <2>0, EnterIs
    <3> QED
      BY <2>0, <3>1 DEF StackInv
  <2>2. carried[c] = {}
    BY <2>1 DEF CarryInv
  <2>3. /\ thread' = [thread EXCEPT ![c] = t] /\ UNCHANGED <<partners, carried, pending, current>>
        /\ thread \in [Call -> Thread]
    BY <1>1, <2>0 DEF Enter, matchVars, TypeInv, TypeOK
  <2>4. \A x : Examined(x)' = Examined(x)
    BY <2>3 DEF Examined
  <2>5. Len(partners[c]) = 0 /\ Cardinality(Examined(c)) = 0
    <3>1. Examined(c) = {}
      BY <2>2 DEF Examined
    <3> QED
      BY <2>1, <2>2, <3>1, NoPartnerYet, FS_EmptySet
  <2>6. ASSUME NEW x \in Call, thread'[x] \in GPUThread
        PROVE  Len(partners[x]) = Cardinality(Examined(x))
    <3>1. x # c => thread'[x] = thread[x]
      BY <2>3
    <3> QED
      BY <2>5, <2>6, <3>1 DEF LenInv
  <2> QED
    BY <2>3, <2>4, <2>6 DEF LenInv
<1>2. ASSUME NEW t \in Thread, NEW K \in SUBSET CorrID, Exit(t, K) PROVE LenInv'
  <2>0. PICK c : c = Top(stack[t])
    OBVIOUS
  <2>1. /\ c \in Call /\ carried[c] = {} /\ pending = {} /\ current' = c /\ pending' = K
        /\ carried'[c] = K /\ \A d \in Call : d # c => carried'[d] = carried[d]
        /\ UNCHANGED <<thread, partners>>
    BY <1>2, <2>0, ExitIs
  <2>2. \A d \in Call : Examined(d)' = Examined(d)
    <3>1. \A d \in Call : Examined(d) = carried[d]
      BY <2>1 DEF Examined
    <3>2. \A d \in Call : Examined(d)' = carried[d]
      BY <2>1 DEF Examined
    <3> QED
      BY <3>1, <3>2
  <2> QED
    BY <2>1, <2>2 DEF LenInv
<1>3. ASSUME NEW k \in CorrID, KeepUnmatched(k) PROVE LenInv'
  <2>1. /\ op = "match" /\ k \in pending /\ pending' = pending \ {k}
        /\ UNCHANGED <<thread, partners, carried, current>>
    BY <1>3 DEF KeepUnmatched, callVars
  <2>2. Met(k) = {}
    BY <1>3, PairKeep
  <2>3. Carriers(k) = {current}
    BY <2>1, <2>2, OneOther
  <2>4. thread[current] \notin GPUThread
    BY <2>3 DEF LaunchInv
  <2>5. \A c : c # current => Examined(c)' = Examined(c)
    BY <2>1 DEF Examined
  <2> QED
    BY <2>1, <2>4, <2>5 DEF LenInv
<1>4. ASSUME NEW k \in CorrID, MatchPartner(k) PROVE LenInv'
  BY <1>4, LenMatch
<1>5. ASSUME NEW k \in CorrID, MatchFails(k) PROVE LenInv'
  BY <1>5, LenQuiet DEF MatchFails, callVars, matchVars
<1>6. CASE MatchDone
  BY <1>6, LenQuiet DEF MatchDone, callVars
<1>7. ASSUME NEW S \in SUBSET Unlabelled, Analyze(S) PROVE LenInv'
  BY <1>7, LenQuiet DEF Analyze, callVars, matchVars
<1>8. CASE Purge
  <2>1. UNCHANGED <<thread, partners, carried, pending, current>>
    BY <1>8 DEF Purge, PurgeBegin, PurgeThread, PurgeUnlock, PurgeFails, PurgeErase,
       PurgeLock, PurgeKeep, PurgeEnd, callVars, matchVars
  <2> QED
    BY <2>1, LenQuiet
<1>9. CASE UNCHANGED vars
  BY <1>9, LenQuiet DEF vars
<1> QED
  BY <1>1, <1>2, <1>3, <1>4, <1>5, <1>6, <1>7, <1>8, <1>9 DEF Next, Match, TrimCallList, Clear, AddCall
(* The line of a call is in the list, and so is that of a kernel's launch.  *)
LineAlive(c) ==
  /\ {c} \cup above[c] \subseteq live
  /\ thread[c] \in GPUThread =>
       \A d \in Call : Among(partners, c, d) => {d} \cup above[d] \subseteq live

(* Without a window a purge visits every call, and locks those without a    *)
(* label: what m_execDataMap still holds unlocked completed after it.       *)
ProvInv ==
  /\ \A c \in execData : done[c]
  /\ op \in {"idle", "match", "analyzed"} => \A c \in execData \ locked : LineAlive(c)
  /\ op = "purge" => \A c \in live :
       done[c] /\ ~labelled[c] /\ c \notin locked => thread[c] \in toPurge \/ c \in toVisit

LEMMA ProvQuiet ==
  ASSUME ProvInv, UNCHANGED <<live, thread, above, partners, execData, locked>>,
         op \in {"idle", "match", "analyzed"}, op' # "purge", \A c \in execData : done'[c]
  PROVE  ProvInv'
<1>1. \A c : LineAlive(c)' = LineAlive(c)
  BY DEF LineAlive, Among
<1> QED
  BY <1>1 DEF ProvInv

LEMMA ProvEnter ==
  ASSUME TypeInv, StackInv, CarryInv, PairInv, ProvInv, NEW t \in Thread, Enter(t)
  PROVE  ProvInv'
<1>0. PICK c : c = nCalls + 1
  OBVIOUS
<1>1. /\ c \in Call /\ live' = live \cup {c} /\ op' = "idle" /\ op = "idle" /\ nCalls \in Nat
      /\ UNCHANGED <<partners, locked, done, execData>>
  BY <1>0, EnterIs DEF Enter
<1>2. \A x \in Call : x # c => above'[x] = above[x] /\ thread'[x] = thread[x]
  BY <1>0 DEF Enter, TypeInv, TypeOK
<1>3. \A x \in Call : done[x] => x # c
  BY <1>0, <1>1 DEF StackInv, Call
<1>4. ASSUME NEW x \in execData \ locked
      PROVE  LineAlive(x)'
  <2>1. x \in Call /\ done[x] /\ LineAlive(x)
    BY <1>1 DEF ProvInv, TypeInv, TypeOK
  <2>2. above'[x] = above[x] /\ thread'[x] = thread[x]
    BY <1>2, <1>3, <2>1
  <2>3. ASSUME NEW d \in Call, Among(partners, x, d) PROVE above'[d] = above[d]
    <3>1. carried[d] # {}
      BY <2>1, <2>3 DEF PairInv
    <3> QED
      BY <1>2, <1>3, <3>1 DEF CarryInv
  <2>4. \A d \in Call : Among(partners', x, d) <=> Among(partners, x, d)
    BY <1>1
  <2>5. live \subseteq live'
    BY <1>1
  <2>6. {x} \cup above'[x] \subseteq live'
    BY <2>1, <2>2, <2>5 DEF LineAlive
  <2>7. ASSUME thread'[x] \in GPUThread, NEW d \in Call, Among(partners', x, d)
        PROVE  {d} \cup above'[d] \subseteq live'
    BY <2>1, <2>2, <2>3, <2>4, <2>5, <2>7 DEF LineAlive
  <2> QED
    BY <2>6, <2>7 DEF LineAlive
<1> QED
  BY <1>1, <1>4 DEF ProvInv

LEMMA ProvExit ==
  ASSUME TypeInv, StackInv, CarryInv, PairInv, ProvInv,
         NEW t \in Thread, NEW K \in SUBSET CorrID, Exit(t, K)
  PROVE  ProvInv'
<1>0. PICK c : c = Top(stack[t])
  OBVIOUS
<1>1. /\ c \in Call /\ c \in live /\ above[c] \subseteq live /\ carried[c] = {}
      /\ op = "idle" /\ op' = "match" /\ execData' = execData \cup {c}
      /\ \A d \in Call : done'[d] <=> (d = c \/ done[d])
      /\ UNCHANGED <<live, thread, above, partners, locked>>
  BY <1>0, ExitIs
<1>2. \A x : LineAlive(x)' = LineAlive(x)
  BY <1>1 DEF LineAlive, Among
<1>3. LineAlive(c)
  <2>1. \A d \in Call : ~Among(partners, c, d)
    BY <1>1 DEF PairInv
  <2> QED
    BY <1>1, <2>1 DEF LineAlive
<1>4. execData \subseteq Call
  BY DEF TypeInv, TypeOK
<1> QED
  BY <1>1, <1>2, <1>3, <1>4 DEF ProvInv

LEMMA ProvMatch ==
  ASSUME ManagerInv, ProvInv, NEW k \in CorrID, MatchPartner(k)
  PROVE  ProvInv'
<1> USE DEF ManagerInv
<1>0. PICK e : e = unmatched[k]
  OBVIOUS
<1>1. /\ op = "match" /\ e \in Call /\ current \in Call
      /\ \A a, b \in Call : Among(partners', a, b) <=>
           Among(partners, a, b) \/ (a = current /\ b = e) \/ (a = e /\ b = current)
  BY <1>0, MatchIs
<1>2. thread[e] \notin GPUThread /\ {e} \cup above[e] \subseteq live
  BY <1>0, <1>1, ADEventAssumption DEF LaunchInv, GCInv, UnmatchedLineAlive
<1>3. op' = "match" /\ UNCHANGED <<live, thread, above, done, execData, locked>>
  BY <1>1 DEF MatchPartner, callVars
<1>4. ASSUME NEW x \in execData \ locked
      PROVE  LineAlive(x)'
  <2>1. x \in Call /\ LineAlive(x)
    BY <1>1 DEF ProvInv, TypeInv, TypeOK
  <2>2. ASSUME thread[x] \in GPUThread, NEW d \in Call, Among(partners', x, d)
        PROVE  {d} \cup above[d] \subseteq live
    BY <1>1, <1>2, <2>1, <2>2 DEF LineAlive
  <2> QED
    BY <1>3, <2>1, <2>2 DEF LineAlive
<1> QED
  BY <1>1, <1>3, <1>4 DEF ProvInv

LEMMA ProvPurge ==
  ASSUME TypeInv, StackInv, GCInv, ProvInv, FreedIntact, WindowSize = 0, Purge
  PROVE  ProvInv'
<1> USE DEF callVars, matchVars, purgeVars
<1>0. thread \in [Call -> Thread] /\ live \subseteq Call /\ execData \subseteq Call
  BY DEF TypeInv, TypeOK
<1>1. CASE PurgeBegin
  <2>1. op' = "purge" /\ toPurge' = Thread /\ UNCHANGED <<live, thread, done, execData>>
    BY <1>1 DEF PurgeBegin
  <2> QED
    BY <1>0, <2>1 DEF ProvInv
<1>2. ASSUME NEW t \in Thread, PurgeThread(t) PROVE ProvInv'
  <2>1. /\ op = "purge" /\ op' = "purge" /\ toVisit = {} /\ toPurge' = toPurge \ {t}
        /\ toVisit' = OutsideWindow(t)
        /\ UNCHANGED <<live, thread, done, labelled, execData, locked>>
    BY <1>2 DEF PurgeThread
  <2>2. ASSUME NEW c \in live, thread[c] = t PROVE c \in OutsideWindow(t)
    <3>1. PICK A : A = {d \in CallsOf(t) : d > c}
      OBVIOUS
    <3>2. A \in SUBSET Call
      BY <1>0, <3>1 DEF CallsOf
    <3>3. Cardinality(A) \in Nat
      BY <3>2, CallsFinite, FS_CardinalityType
    <3>4. Cardinality(A) >= WindowSize
      BY <3>3
    <3> QED
      BY <2>2, <3>1, <3>4 DEF OutsideWindow, CallsOf
  <2> QED
    BY <2>1, <2>2 DEF ProvInv
<1>3. ASSUME NEW c \in Call, PurgeUnlock(c) PROVE ProvInv'
  <2>1. /\ op = "purge" /\ op' = "purge" /\ labelled[c] /\ locked' = locked \ {c}
        /\ UNCHANGED <<live, thread, done, labelled, execData, toPurge, toVisit>>
    BY <1>3 DEF PurgeUnlock, Visiting, MustUnlock
  <2> QED
    BY <2>1 DEF ProvInv
<1>4. ASSUME NEW c \in Call, PurgeFails(c) PROVE ProvInv'
  <2>1. op' = "terminated" /\ UNCHANGED <<done, execData>>
    BY <1>4 DEF PurgeFails
  <2> QED
    BY <2>1 DEF ProvInv
<1>5. ASSUME NEW c \in Call, PurgeErase(c) PROVE ProvInv'
  <2>1. /\ op = "purge" /\ op' = "purge" /\ live' = live \ {c} /\ toVisit' = toVisit \ {c}
        /\ UNCHANGED <<thread, done, labelled, execData, locked, toPurge>>
    BY <1>5 DEF PurgeErase, Visiting
  <2> QED
    BY <2>1 DEF ProvInv
<1>6. ASSUME NEW c \in Call, PurgeLock(c) PROVE ProvInv'
  <2>1. /\ op = "purge" /\ op' = "purge" /\ locked' = locked \cup {c} /\ toVisit' = toVisit \ {c}
        /\ UNCHANGED <<live, thread, done, labelled, execData, toPurge>>
    BY <1>6 DEF PurgeLock, Visiting
  <2> QED
    BY <2>1 DEF ProvInv
<1>7. ASSUME NEW c \in Call, PurgeKeep(c) PROVE ProvInv'
  <2>1. /\ op = "purge" /\ op' = "purge" /\ toVisit' = toVisit \ {c}
        /\ ~(done[c] /\ ~labelled[c] /\ c \notin locked)
        /\ UNCHANGED <<live, thread, done, labelled, execData, locked, toPurge>>
    BY <1>7 DEF PurgeKeep, Visiting
  <2> QED
    BY <2>1 DEF ProvInv
<1>8. CASE PurgeEnd
  <2>1. /\ op = "purge" /\ op' = "idle" /\ toPurge = {} /\ toVisit = {}
        /\ execData' = Unlabelled \ (Call \ live)
        /\ UNCHANGED <<live, done, locked>>
    BY <1>8 DEF PurgeEnd, ClearUnlabeled
  <2>2. execData' \subseteq execData /\ execData' \subseteq live /\ \A c \in execData' : ~labelled[c]
    BY <1>0, <2>1 DEF Unlabelled
  <2>3. execData' \ locked' = {}
    BY <2>1, <2>2 DEF ProvInv
  <2> QED
    BY <2>1, <2>2, <2>3 DEF ProvInv
<1> QED
  BY <1>1, <1>2, <1>3, <1>4, <1>5, <1>6, <1>7, <1>8 DEF Purge

LEMMA ProvStep ==
  ASSUME ManagerInv, ProvInv, FreedIntact, WindowSize = 0, ~TestAPI, [Next]_vars
  PROVE  ProvInv'
<1> USE DEF ManagerInv, callVars, matchVars, purgeVars
<1>0. \A c \in execData : done[c]
  BY DEF ProvInv
<1>1. ASSUME NEW k \in CorrID, KeepUnmatched(k) PROVE ProvInv'
  BY <1>0, <1>1, ProvQuiet DEF KeepUnmatched
<1>2. ASSUME NEW k \in CorrID, MatchFails(k) PROVE ProvInv'
  BY <1>0, <1>2, ProvQuiet DEF MatchFails
<1>3. CASE MatchDone
  BY <1>0, <1>3, ProvQuiet DEF MatchDone
<1>4. ASSUME NEW S \in SUBSET Unlabelled, Analyze(S) PROVE ProvInv'
  BY <1>0, <1>4, ProvQuiet DEF Analyze
<1>5. CASE UNCHANGED vars
  <2>1. \A c : LineAlive(c)' = LineAlive(c)
    BY <1>5 DEF LineAlive, Among, vars
  <2> QED
    BY <1>5, <2>1 DEF ProvInv, vars
<1>6. CASE Match
  BY <1>1, <1>2, <1>3, <1>6, ProvMatch DEF Match
<1>7. CASE Purge
  BY <1>7, ProvPurge
<1> QED
  BY <1>4, <1>5, <1>6, <1>7, ProvEnter, ProvExit DEF Next, TrimCallList, Clear, AddCall
(* When the provenance is collected, what a call needs of others is there.  *)
LEMMA CompleteThen ==
  ASSUME ManagerInv, LenInv, ProvInv, WindowSize = 0, op = "analyzed",
         NEW c \in execData, c \notin locked
  PROVE  Provenance(c) = Expected(c)
<1> USE DEF ManagerInv
<1>1. /\ c \in Call /\ done[c] /\ LineAlive(c) /\ pending = {}
      /\ live \subseteq Call /\ Call \subseteq Nat /\ above \in [Call -> SUBSET Call]
      /\ partners[c] \in Seq(Call)
  BY DEF ProvInv, TypeInv, TypeOK, CarryInv, Call
<1>2. ASSUME NEW x \in Call, above[x] \subseteq live
      PROVE  CallStack(x) = Line(x)
  BY <1>2 DEF CallStack, Line
<1>3. CallStack(c) = Line(c)
  BY <1>1, <1>2 DEF LineAlive
<1>4. Window(c) = {c}
  <2> DEFINE Between(d) ==
        {b \in CallsOf(thread[c]) : (c < b /\ b < d) \/ (d < b /\ b < c)} \cup ({d} \ {c})
  <2>1. c \in CallsOf(thread[c])
    BY <1>1 DEF LineAlive, CallsOf
  <2>2. Between(c) = {}
    <3>1. \A b \in Call : ~(c < b /\ b < c)
      BY <1>1
    <3> QED
      BY <1>1, <3>1 DEF CallsOf
  <2>3. Cardinality(Between(c)) <= 0
    BY <2>2, FS_EmptySet
  <2>4. ASSUME NEW d \in CallsOf(thread[c]), d # c PROVE ~(Cardinality(Between(d)) <= 0)
    <3>1. Between(d) \in SUBSET Call /\ d \in Between(d)
      BY <1>1, <2>4 DEF CallsOf
    <3> HIDE DEF Between
    <3>2. IsFiniteSet(Between(d))
      BY <3>1, CallsFinite
    <3>3. Cardinality(Between(d)) \in Nat /\ Cardinality(Between(d)) > 0
      BY <3>1, <3>2, Counting
    <3> QED
      BY <3>3
  <2>5. Window(c) = {d \in CallsOf(thread[c]) : Cardinality(Between(d)) <= 0}
    BY DEF Window
  <2> HIDE DEF Between
  <2> QED
    BY <2>1, <2>3, <2>4, <2>5
<1>5. HostStack(c) = IF thread[c] \in GPUThread /\ Cardinality(carried[c]) = 1 /\ Launches(c) # {}
                       THEN Line(CHOOSE d \in Launches(c) : TRUE) ELSE NoStack
  <2>1. CASE thread[c] \notin GPUThread
    BY <2>1 DEF HostStack
  <2>2. CASE thread[c] \in GPUThread
    <3>1. Len(partners[c]) = Cardinality(carried[c])
      <4>1. Examined(c) = carried[c]
        BY <1>1 DEF Examined
      <4> QED
        BY <1>1, <2>2, <4>1 DEF LenInv
    <3>2. CASE Cardinality(carried[c]) # 1
      BY <3>1, <3>2 DEF HostStack
    <3>3. CASE Cardinality(carried[c]) = 1
      <4>1. PICK d : d = partners[c][1]
        OBVIOUS
      <4>2. d \in Call /\ Among(partners, c, d)
        BY <1>1, <3>1, <3>3, <4>1 DEF Among
      <4>3. d # c /\ \E k \in carried[c] \cap carried[d] : TRUE
        BY <1>1, <4>2 DEF PairInv
      <4>4. PICK k \in CorrID : carried[c] = {k}
        <5>1. carried[c] \subseteq CorrID /\ IsFiniteSet(carried[c])
          BY <1>1, ADEventAssumption, FS_Subset DEF TypeInv, TypeOK
        <5>2. \E k : carried[c] = {k}
          BY <3>3, <5>1, FS_Singleton
        <5> QED
          BY <5>1, <5>2
      <4>5. c \in Carriers(k) /\ d \in Carriers(k)
        BY <1>1, <4>2, <4>3, <4>4 DEF Carriers
      <4>6. thread[d] \notin GPUThread /\ d \in 1 .. nCalls
        BY <2>2, <4>3, <4>5, CarriersDone DEF CarryInv, TypeInv
      <4>7. d \in Launches(c)
        BY <4>3, <4>6 DEF Launches
      <4>8. ASSUME NEW x \in Launches(c) PROVE x = d
        <5>1. x \in Call /\ k \in carried[x] /\ thread[x] \notin GPUThread
          <6>1. 1 .. nCalls \subseteq Call
            BY ADEventAssumption DEF TypeInv, TypeOK, Call
          <6> QED
            BY <4>4, <6>1 DEF Launches
        <5>2. x \in Carriers(k)
          BY <5>1 DEF Carriers
        <5> QED
          BY <4>5, <4>6, <5>1, <5>2 DEF CarryInv
      <4>9. Launches(c) = {d} /\ (CHOOSE x \in Launches(c) : TRUE) = d
        BY <4>7, <4>8
      <4>10. {d} \cup above[d] \subseteq live
        BY <1>1, <2>2, <4>2 DEF LineAlive
      <4>11. HostStack(c) = CallStack(d)
        BY <2>2, <3>1, <3>3, <4>1, <4>10 DEF HostStack
      <4>12. CallStack(d) = Line(d)
        BY <1>2, <4>2, <4>10
      <4> QED
        BY <2>2, <3>3, <4>9, <4>11, <4>12
    <3> QED
      BY <3>2, <3>3
  <2> QED
    BY <2>1, <2>2
<1> QED
  BY <1>3, <1>4, <1>5 DEF Provenance, Expected

(* ADAnomalyProvenance: the provenance of a call that is labelled in the IO *)
(* step it completes in has its whole call stack and, for a kernel of one   *)
(* correlation ID, the whole call stack of its launch, however long ago     *)
(* they were entered and whatever the purges in between have freed.         *)
THEOREM ProvenanceIsComplete ==
  ASSUME LaunchFirst, ~TestAPI, FreedIntact
  PROVE  Spec => []ProvenanceComplete
<1>1. CASE WindowSize = 0
  <2>1. Init => ManagerInv /\ LenInv /\ ProvInv
    <3> SUFFICES ASSUME Init PROVE ManagerInv /\ LenInv /\ ProvInv
      OBVIOUS
    <3>1. \A c \in Call : Examined(c) = {} /\ Len(partners[c]) = 0
      BY DEF Init, Examined
    <3>2. LenInv
      BY <3>1, FS_EmptySet DEF LenInv
    <3>3. ProvInv
      BY DEF Init, ProvInv
    <3> QED
      BY <3>2, <3>3, ManagerInit
  <2>2. ManagerInv /\ LenInv /\ ProvInv /\ [Next]_vars => (ManagerInv /\ LenInv /\ ProvInv)'
    BY <1>1, ManagerStep, LenStep, ProvStep
  <2>3. ManagerInv /\ LenInv /\ ProvInv => ProvenanceComplete
    BY <1>1, CompleteThen DEF ProvenanceComplete
  <2> QED
    BY <2>1, <2>2, <2>3, PTL DEF Spec
<1>2. CASE WindowSize # 0
  <2>1. ProvenanceComplete
    BY <1>2 DEF ProvenanceComplete
  <2> QED
    BY <2>1, PTL
<1> QED
  BY <1>1, <1>2
=============================================================================
