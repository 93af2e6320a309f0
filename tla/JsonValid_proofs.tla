---------------------------- MODULE JsonValid_proofs ----------------------------
(***************************************************************************)
(* The validator's stack of bits is the kinds of the containers open, for  *)
(* every text, number of words and width of a word.                        *)
(***************************************************************************)
EXTENDS JsonValid, TLAPS

\* A container's word and bit are the only ones with its number, and its word is
\* one of the stack's (json_valid_impl.rs 68-73, 335-347).
LEMMA WordAndBit ==
  ASSUME NEW d \in Nat, d < MAX_DEPTH
  PROVE  /\ d \div WORD \in 0..(STACK_WORDS - 1)
         /\ d % WORD \in 0..(WORD - 1)
  <1>1. /\ STACK_WORDS \in Nat /\ STACK_WORDS > 0 /\ WORD \in Nat /\ WORD > 0
    BY StackAssumption
  <1>2. /\ d \div WORD \in Int /\ d % WORD \in 0..(WORD - 1)
        /\ d = WORD * (d \div WORD) + (d % WORD)
    BY <1>1, Z3
  <1>3. d < STACK_WORDS * WORD  BY DEF MAX_DEPTH
  <1>4. d \div WORD >= 0  BY <1>1, <1>2, Z3
  <1>5. d \div WORD < STACK_WORDS
    <2>1. SUFFICES ASSUME d \div WORD >= STACK_WORDS PROVE FALSE  BY <1>1, <1>2
    <2>2. WORD * (d \div WORD) >= WORD * STACK_WORDS  BY <1>1, <1>2, <2>1, Z3
    <2> QED  BY <1>1, <1>2, <1>3, <2>2, Z3
  <1> QED  BY <1>1, <1>2, <1>4, <1>5

\* Two containers with the same word and bit are one.
LEMMA OneNumber ==
  ASSUME NEW d \in Nat, NEW e \in Nat, d \div WORD = e \div WORD, d % WORD = e % WORD
  PROVE  d = e
  <1>1. WORD \in Nat /\ WORD > 0  BY StackAssumption
  <1>2. d = WORD * (d \div WORD) + (d % WORD)  BY <1>1, Z3
  <1>3. e = WORD * (e \div WORD) + (e % WORD)  BY <1>1, Z3
  <1> QED  BY <1>2, <1>3

\* The inductive invariant: the words hold the kinds below the depth, and the states
\* inside a container know its kind.
ValidInv == ValidTypeOK /\ StackIsFaithful

\* No container is open at first.
LEMMA InitValid == ValidInit => ValidInv
  BY StackAssumption DEF ValidInit, ValidInv, ValidTypeOK, StackIsFaithful, MAX_DEPTH

\* Reading the bit of the container that is innermost gives its kind.
LEMMA TopIsOpen ==
  ASSUME ValidInv, depth > 0
  PROVE  top_is_object <=> open[depth]
  <1>1. depth - 1 \in 0..(depth - 1) /\ (depth - 1) + 1 = depth
    BY DEF ValidInv, ValidTypeOK
  <1> QED  BY <1>1 DEF ValidInv, StackIsFaithful, top_is_object

\* A step that goes on to a state outside of names and list starts keeps the invariant.
LEMMA GotoValid ==
  ASSUME ValidInv, NEW state, NEW i, Goto(state, i),
         state \in {"Value", "AfterValue", "ObjKey"},
         state = "ObjKey" => depth > 0 /\ open[depth]
  PROVE  ValidInv'
  BY DEF ValidInv, ValidTypeOK, StackIsFaithful, Goto

\* Returning leaves the stack as it is.
LEMMA ReturnValid ==
  ASSUME ValidInv, NEW v \in {"valid", "invalid"}, Return(v)
  PROVE  ValidInv'
  BY DEF ValidInv, ValidTypeOK, StackIsFaithful, Return

\* Closing leaves the bits of the containers around it.
LEMMA CloseValid ==
  ASSUME ValidInv, NEW i, Close(i), depth > 0
  PROVE  ValidInv'
  <1>1. open \in Seq(BOOLEAN) /\ Len(open) = depth /\ depth \in Nat
        /\ depth <= MAX_DEPTH /\ MAX_DEPTH \in Nat
    BY StackAssumption DEF ValidInv, ValidTypeOK, MAX_DEPTH
  <1>2. /\ open' \in Seq(BOOLEAN) /\ Len(open') = depth - 1
        /\ \A d \in 0..(depth - 2) : open'[d + 1] = open[d + 1]
    BY <1>1 DEF Close
  <1>3. depth' \in 0..MAX_DEPTH /\ depth' = depth - 1
    BY <1>1 DEF Close
  <1>4. ValidTypeOK'
    BY <1>1, <1>2, <1>3 DEF ValidInv, ValidTypeOK, Close
  <1>5. StackIsFaithful'
    BY <1>1, <1>2 DEF ValidInv, StackIsFaithful, Close
  <1> QED  BY <1>4, <1>5 DEF ValidInv

\* Pushing sets the bit of the new container, either way, and no bit below it.
LEMMA PushValid ==
  ASSUME ValidInv, NEW is_object \in BOOLEAN, NEW state, NEW i, push(is_object, state, i),
         state = IF is_object THEN "ObjKeyOrEnd" ELSE "ArrayOrEnd"
  PROVE  ValidInv'
  <1>1. /\ open \in Seq(BOOLEAN) /\ Len(open) = depth /\ depth \in Nat /\ depth <= MAX_DEPTH
        /\ MAX_DEPTH \in Nat
        /\ stack \in [0..(STACK_WORDS - 1) -> SUBSET (0..(WORD - 1))]
    BY StackAssumption DEF ValidInv, ValidTypeOK, MAX_DEPTH
  <1>2. CASE depth >= MAX_DEPTH
    BY <1>2, ReturnValid DEF push
  <1>3. CASE depth < MAX_DEPTH
    <2>1. /\ stack' = pushed(is_object) /\ depth' = depth + 1 /\ open' = Append(open, is_object)
          /\ st' = state /\ verdict' = verdict
      BY <1>1, <1>3 DEF push
    <2>2. depth \div WORD \in 0..(STACK_WORDS - 1) /\ depth % WORD \in 0..(WORD - 1)
      BY <1>1, <1>3, WordAndBit
    <2>3. stack' \in [0..(STACK_WORDS - 1) -> SUBSET (0..(WORD - 1))]
      BY <1>1, <2>1, <2>2 DEF pushed
    <2>4. /\ open' \in Seq(BOOLEAN) /\ Len(open') = depth + 1
          /\ open'[depth + 1] = is_object
          /\ \A d \in 0..(depth - 1) : open'[d + 1] = open[d + 1]
      BY <1>1, <2>1
    <2>5. ValidTypeOK'
      BY <1>1, <1>3, <2>1, <2>3, <2>4 DEF ValidInv, ValidTypeOK
    <2>6. depth % WORD \in stack'[depth \div WORD] <=> is_object
      BY <1>1, <2>1, <2>2 DEF pushed
    <2>7. ASSUME NEW d \in 0..(depth - 1)
          PROVE  d % WORD \in stack'[d \div WORD] <=> open[d + 1]
      <3>1. d \in Nat /\ d < MAX_DEPTH /\ d # depth  BY <1>1
      <3>2. d \div WORD \in 0..(STACK_WORDS - 1) /\ d % WORD \in 0..(WORD - 1)
        BY <3>1, WordAndBit
      <3>3. d \div WORD # depth \div WORD \/ d % WORD # depth % WORD
        BY <1>1, <3>1, OneNumber
      <3>4. d % WORD \in stack'[d \div WORD] <=> d % WORD \in stack[d \div WORD]
        BY <1>1, <2>1, <2>2, <3>2, <3>3 DEF pushed
      <3> QED  BY <3>4 DEF ValidInv, StackIsFaithful
    <2>8. \A d \in 0..depth : d % WORD \in stack'[d \div WORD] <=> open'[d + 1]
      <3>1. SUFFICES ASSUME NEW d \in 0..depth
                     PROVE  d % WORD \in stack'[d \div WORD] <=> open'[d + 1]
        OBVIOUS
      <3>2. CASE d = depth  BY <2>4, <2>6, <3>2
      <3>3. CASE d # depth
        <4>1. d \in 0..(depth - 1)  BY <1>1, <3>3
        <4> QED  BY <2>4, <2>7, <4>1
      <3> QED  BY <3>2, <3>3
    <2>9. depth' - 1 = depth /\ depth' > 0  BY <1>1, <2>1
    <2>10. StackIsFaithful'
      BY <1>1, <2>1, <2>4, <2>8, <2>9 DEF StackIsFaithful
    <2> QED  BY <2>5, <2>10 DEF ValidInv
  <1> QED  BY <1>1, <1>2, <1>3

\* Every step keeps the invariant.
LEMMA NextValid == ValidInv /\ [ValidNext]_valid_vars => ValidInv'
  <1> SUFFICES ASSUME ValidInv, [ValidNext]_valid_vars PROVE ValidInv'
    OBVIOUS
  <1>0. depth \in Nat
    BY StackAssumption DEF ValidInv, ValidTypeOK, MAX_DEPTH
  <1>1. CASE AfterValue
    <2>1. CASE Here = ""
      BY <1>1, <2>1, ReturnValid DEF AfterValue
    <2>2. CASE Here = "," /\ depth > 0
      <3>1. Goto(IF top_is_object THEN "ObjKey" ELSE "Value", skip_ws(pos) + 1)
        BY <1>1, <2>2 DEF AfterValue
      <3> QED  BY <2>2, <3>1, TopIsOpen, GotoValid
    <2>3. CASE Here = "]" /\ depth > 0 /\ ~top_is_object
      BY <1>1, <2>3, CloseValid DEF AfterValue
    <2>4. CASE Here = "}" /\ depth > 0 /\ top_is_object
      BY <1>1, <2>4, CloseValid DEF AfterValue
    <2>5. CASE /\ Here # "" /\ ~(Here = "," /\ depth > 0)
               /\ ~(Here = "]" /\ depth > 0 /\ ~top_is_object)
               /\ ~(Here = "}" /\ depth > 0 /\ top_is_object)
      BY <1>1, <2>5, ReturnValid DEF AfterValue
    <2> QED  BY <2>1, <2>2, <2>3, <2>4, <2>5
  <1>2. CASE Containers
    <2>1. CASE push(FALSE, "ArrayOrEnd", skip_ws(pos) + 1)
      BY <2>1, PushValid
    <2>2. CASE push(TRUE, "ObjKeyOrEnd", skip_ws(pos) + 1)
      BY <2>2, PushValid
    <2>3. CASE st = "ArrayOrEnd" /\ Close(skip_ws(pos) + 1)
      BY <2>3, CloseValid DEF ValidInv, StackIsFaithful
    <2> QED  BY <1>2, <2>1, <2>2, <2>3 DEF Containers
  <1>3. CASE Scalar
    BY <1>3, ReturnValid, GotoValid DEF Scalar
  <1>4. CASE ObjectKey
    <2>1. CASE Here = "}" /\ st = "ObjKeyOrEnd"
      <3>1. depth > 0  BY <2>1 DEF ValidInv, StackIsFaithful
      <3> QED  BY <1>4, <2>1, <3>1, CloseValid DEF ObjectKey
    <2>2. CASE ~(Here = "}" /\ st = "ObjKeyOrEnd")
      BY <1>4, <2>2, ReturnValid, GotoValid DEF ObjectKey
    <2> QED  BY <2>1, <2>2
  <1>5. CASE UNCHANGED valid_vars
    BY <1>5 DEF valid_vars, ValidInv, ValidTypeOK, StackIsFaithful
  <1> QED  BY <1>1, <1>2, <1>3, <1>4, <1>5 DEF ValidNext

\* The invariant holds of every check (is_valid, json_valid_impl.rs 325-470).
THEOREM ValidInvariant == ValidSpec => []ValidInv
  BY InitValid, NextValid, PTL DEF ValidSpec

\* Every word stays a set of its own bits and the depth within the words
\* (json_valid_impl.rs 335-347: the push refuses before it writes).
THEOREM ValidTypes == ValidSpec => []ValidTypeOK
  <1>1. ValidInv => ValidTypeOK  BY DEF ValidInv
  <1> QED  BY <1>1, ValidInvariant, PTL

\* The bit stack and the kinds of the open containers agree at every step of every
\* check, however often a depth was left and entered again (json_valid_impl.rs 335-352).
THEOREM BitsAreKinds == ValidSpec => []StackIsFaithful
  <1>1. ValidInv => StackIsFaithful  BY DEF ValidInv
  <1> QED  BY <1>1, ValidInvariant, PTL
===============================================================================
