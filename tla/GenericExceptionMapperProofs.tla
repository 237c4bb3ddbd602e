-------------------- MODULE GenericExceptionMapperProofs --------------------
(***************************************************************************)
(* What TLAPS proves of GenericExceptionMapper, for any threads and any    *)
(* errors.  The inductive invariant says what the field is good for: once  *)
(* a thread has assigned it, it holds NOT_FOUND and nothing else again.    *)
(***************************************************************************)
EXTENDS GenericExceptionMapper, TLAPS

\* Whoever has assigned the field can only read NOT_FOUND from it.
Stuck == writers # {} => STATUS = NOT_FOUND

\* Between the test of the exception and the response, a thread that maps an
\* unknown path is one that has assigned the field.
Mapping ==
    \A t \in Threads :
        /\ pc[t] = "status" /\ error[t] = NotFoundException => t \in writers
        /\ pc[t] = "sent" /\ error[t] = NotFoundException => http[t] = NOT_FOUND

IInv == TypeOK /\ Stuck /\ Mapping

\* A read of the field gives a status.
LEMMA VisibleTyped ==
    ASSUME TypeOK, NEW t \in Threads, NEW s \in Visible(t)
    PROVE  s \in {NOT_FOUND, INTERNAL_SERVER_ERROR}
BY DEF Visible, TypeOK

LEMMA InitIInv == Init => IInv
BY DEF Init, IInv, TypeOK, Stuck, Mapping, Codes, NotFoundException

LEMMA NextIInv == IInv /\ [Next]_vars => IInv'
<1> SUFFICES ASSUME IInv, [Next]_vars PROVE IInv'
  OBVIOUS
<1>1. CASE UNCHANGED vars
  BY <1>1 DEF IInv, TypeOK, Stuck, Mapping, vars
<1>2. ASSUME NEW t \in Threads, Throw(t) PROVE IInv'
  <2>1. PICK e \in Errors : error' = [error EXCEPT ![t] = e]
    BY <1>2 DEF Throw
  <2>2. PICK s \in Visible(t) : body' = [body EXCEPT ![t] = s]
    BY <1>2 DEF Throw
  <2>3. TypeOK'
    BY <1>2, <2>1, <2>2, VisibleTyped, ErrorsAssumption DEF IInv, TypeOK, Throw, Codes
  <2>4. Stuck' /\ Mapping'
    BY <1>2, <2>1 DEF IInv, TypeOK, Stuck, Mapping, Throw
  <2>5. QED
    BY <2>3, <2>4 DEF IInv
<1>3. ASSUME NEW t \in Threads, Classify(t) PROVE IInv'
  <2>1. TypeOK'
    BY <1>3 DEF IInv, TypeOK, Classify
  <2>2. Stuck' /\ Mapping'
    BY <1>3 DEF IInv, TypeOK, Stuck, Mapping, Classify
  <2>3. QED
    BY <2>1, <2>2 DEF IInv
<1>4. ASSUME NEW t \in Threads, Build(t) PROVE IInv'
  <2>1. PICK s \in Visible(t) : http' = [http EXCEPT ![t] = s]
    BY <1>4 DEF Build
  <2>2. TypeOK'
    BY <1>4, <2>1, VisibleTyped DEF IInv, TypeOK, Build, Codes, NoStatus, NOT_FOUND,
       INTERNAL_SERVER_ERROR
  <2>3. t \in writers => s = NOT_FOUND
    BY <2>1 DEF IInv, Stuck, Visible
  <2>4. Stuck' /\ Mapping'
    BY <1>4, <2>1, <2>3 DEF IInv, TypeOK, Stuck, Mapping, Build
  <2>5. QED
    BY <2>2, <2>4 DEF IInv
<1>5. ASSUME NEW t \in Threads, Send(t) PROVE IInv'
  <2>1. TypeOK'
    BY <1>5 DEF IInv, TypeOK, Send, Codes
  <2>2. Stuck' /\ Mapping'
    BY <1>5 DEF IInv, TypeOK, Stuck, Mapping, Send
  <2>3. QED
    BY <2>1, <2>2 DEF IInv
<1>6. QED
  BY <1>1, <1>2, <1>3, <1>4, <1>5 DEF Next

\* The field holds only what was assigned to it, of the mapper at every step.
THEOREM InvariantHolds == Spec => []IInv
BY InitIInv, NextIInv, PTL DEF Spec

\* Every variable keeps its type, of toResponse in GenericExceptionMapper.
THEOREM TypeCorrect == Spec => []TypeOK
<1>1. IInv => TypeOK
  BY DEF IInv
<1>2. QED
  BY <1>1, InvariantHolds, PTL

\* An unknown path is answered 404, whichever threads race for the field.
THEOREM UnknownPathHolds == Spec => []UnknownPathAnswers404
<1>1. IInv => UnknownPathAnswers404
  BY DEF IInv, Mapping, UnknownPathAnswers404
<1>2. QED
  BY <1>1, InvariantHolds, PTL
=============================================================================
