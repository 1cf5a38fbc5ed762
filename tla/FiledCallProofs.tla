--------------------------- MODULE FiledCallProofs ---------------------------
(***************************************************************************)
(* What a reader of the database may conclude from the promise FiledCall:  *)
(* the definite words are true, they cannot be changed, and no call was    *)
(* made that is not on file or denied.  The typing conjuncts are needed to *)
(* reason about calls[i].                                                  *)
(***************************************************************************)
EXTENDS FiledCall, TLAPS

Types ==
  /\ filed \subseteq Ids /\ effects \subseteq Ids
  /\ calls \in [Ids -> Nat]

IInv == Types /\ BooksTrue

LEMMA InitBooks == Init => IInv
BY DEF Init, IInv, Types, BooksTrue

LEMMA StepBooks == IInv /\ [Next]_vars => IInv'
<1> SUFFICES ASSUME IInv, [Next]_vars
             PROVE  IInv'
  OBVIOUS
<1> USE DEF IInv, Types, BooksTrue
<1>1. CASE UNCHANGED vars
  BY <1>1 DEF vars
<1>2. ASSUME NEW i \in Ids, File(i)
      PROVE  IInv'
  BY <1>2 DEF File
<1>3. ASSUME NEW i \in Ids, Call(i)
      PROVE  IInv'
  <2>1. Types'
    BY <1>3 DEF Call
  <2>2. (\A j \in Ids : calls[j] \in {0, 1} /\ (calls[j] = 1 => j \in filed \cup denied))'
    BY <1>3 DEF Call
  <2>3. (\A j \in effects : j \in filed /\ calls[j] = 1)'
    BY <1>3 DEF Call
  <2>4. (done \subseteq effects /\ denied \cap filed = {})'
    BY <1>3 DEF Call
  <2>5. QED
    BY <2>1, <2>2, <2>3, <2>4
<1>4. ASSUME NEW i \in Ids, TakeEffect(i)
      PROVE  IInv'
  BY <1>4 DEF TakeEffect
<1>5. CASE Tell
  BY <1>5 DEF Tell
<1>6. QED
  BY <1>1, <1>2, <1>3, <1>4, <1>5 DEF Next

\* Whoever keeps the promise has true books: each call is made at most once and
\* only from the file, what is said to have taken effect has, and what is said
\* never to take effect is off the file for good.
THEOREM BooksAreTrue == Spec => []BooksTrue
<1>1. IInv => BooksTrue
  BY DEF IInv
<1>2. QED
  BY <1>1, InitBooks, StepBooks, PTL DEF Spec
=============================================================================
