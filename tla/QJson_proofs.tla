------------------------------ MODULE QJson_proofs ------------------------------
(***************************************************************************)
(* Theorems about QJson, for every query whose first step does not occur   *)
(* in it again, every set of keys and documents of every size and depth.   *)
(***************************************************************************)
EXTENDS QJson, SequenceTheorems, TLAPS

\* Facts of arithmetic, to be cited where the provers do not find them.
LEMMA LessThan == \A m, n \in Nat : m < n => m + 1 <= n
OBVIOUS

\* The length of a sequence that is not empty is its last index.
LEMMA LastOfInterval == \A n \in Nat : n # 0 => n \in 1 .. n
OBVIOUS

\* A length is that of nothing, of one or of more.
LEMMA OneOrMore == \A n \in Nat : n # 0 => n = 1 \/ n > 1
OBVIOUS

Steps == Keys \union {"#"}

\* The last element of a sequence, and the others.
LEMMA PopProperties ==
  ASSUME NEW S, NEW s \in Seq(S), s # <<>>
  PROVE  /\ Len(s) \in Nat \ {0} /\ Top(s) \in S
         /\ Pop(s) \in Seq(S) /\ Len(Pop(s)) = Len(s) - 1
         /\ \A i \in 1 .. Len(s) - 1 : Pop(s)[i] = s[i]
<1>1. Len(s) \in Nat \ {0}
  BY EmptySeq
<1>2. \A i \in 1 .. Len(s) - 1 : s[i] \in S
  BY <1>1, ElementOfSeq
<1>3. /\ SubSeq(s, 1, Len(s) - 1) \in Seq(S)
      /\ Len(SubSeq(s, 1, Len(s) - 1)) = Len(s) - 1
      /\ \A i \in 1 .. Len(s) - 1 : SubSeq(s, 1, Len(s) - 1)[i] = s[i]
  <2> DEFINE n == Len(s) - 1
  <2>1. n \in Nat
    BY <1>1
  <2>2. \A i \in 1 .. n : s[i] \in S
    BY <1>2
  <2> HIDE DEF n
  <2>3. /\ SubSeq(s, 1, n) \in Seq(S)
        /\ Len(SubSeq(s, 1, n)) = IF 1 <= n THEN n - 1 + 1 ELSE 0
        /\ \A i \in 1 .. n - 1 + 1 : SubSeq(s, 1, n)[i] = s[1 + i - 1]
    <3>1. 1 \in Int /\ n \in Int
      BY <2>1
    <3>2. QED
      BY <3>1, <2>2, SubSeqProperties
  <2>4. /\ SubSeq(s, 1, n) \in Seq(S) /\ Len(SubSeq(s, 1, n)) = n
        /\ \A i \in 1 .. n : SubSeq(s, 1, n)[i] = s[i]
    BY <2>1, <2>3
  <2>5. QED
    BY <2>4 DEF n
<1>4. QED
  BY <1>1, <1>3, ElementOfSeq DEF Pop, Top

\* A sequence with one more element.
LEMMA PushProperties ==
  ASSUME NEW S, NEW s \in Seq(S), NEW e \in S
  PROVE  /\ Append(s, e) \in Seq(S) /\ Append(s, e) # <<>>
         /\ Len(Append(s, e)) = Len(s) + 1 /\ Len(s) \in Nat
         /\ Top(Append(s, e)) = e
         /\ \A i \in 1 .. Len(s) : Append(s, e)[i] = s[i]
<1>1. /\ Append(s, e) \in Seq(S) /\ Append(s, e) # <<>>
      /\ Len(Append(s, e)) = Len(s) + 1 /\ Len(s) \in Nat
      /\ Append(s, e)[Len(s) + 1] = e
      /\ \A i \in 1 .. Len(s) : Append(s, e)[i] = s[i]
  BY AppendProperties, LenProperties
<1>2. QED
  BY <1>1 DEF Top

--------------------------------------------------------------------------------
\* Types.

\* The query is a sequence of steps that is not empty.
LEMMA QueryType ==
  /\ Query \in Seq(Steps) /\ Len(Query) \in Nat \ {0}
  /\ DOMAIN Query = 1 .. Len(Query) /\ \A i \in 1 .. Len(Query) : Query[i] \in Steps
BY QJsonAssumption, EmptySeq, LenProperties, ElementOfSeq DEF Steps

\* The stacks that have something on them.
LEMMA StacksType ==
  ASSUME TypeOK
  PROVE  /\ positions # <<>> /\ Len(positions) \in Nat \ {0} /\ Len(keys) \in Nat
         /\ Current \in 0 .. Len(Query)
         /\ Len(tree) \in Nat /\ (tree = <<>> <=> Len(tree) = 0)
         /\ (tree # <<>> => /\ Top(tree) \in {"object", "array"} /\ Top(paths) \in Seq(Steps)
                            /\ paths # <<>>)
         /\ ~(InObject /\ InArray)
<1>1. Len(keys) \in Nat /\ Len(positions) = Len(keys) + 1
  BY LenProperties DEF TypeOK
<1>2. positions # <<>>
  BY <1>1, EmptySeq
<1>3. Current \in 0 .. Len(Query)
  BY <1>2, PopProperties DEF TypeOK, Current
<1>4. Len(tree) \in Nat /\ (tree = <<>> <=> Len(tree) = 0) /\ Len(paths) = Len(tree)
  BY EmptySeq, LenProperties DEF TypeOK
<1>5. tree # <<>> => paths # <<>>
  BY <1>4, EmptySeq
<1>6. tree # <<>> => Top(tree) \in {"object", "array"} /\ Top(paths) \in Seq(Steps)
  BY <1>5, PopProperties DEF TypeOK, Steps
<1>7. ~(InObject /\ InArray)
  BY DEF InObject, InArray
<1>8. Len(positions) \in Nat \ {0}
  BY <1>1
<1>9. QED
  BY <1>1, <1>2, <1>3, <1>4, <1>5, <1>6, <1>7, <1>8, Zenon

\* The path to the next value is one step longer than the path to what it is in.
LEMMA ValuePathType ==
  ASSUME TypeOK, ValueAllowed
  PROVE  /\ ValuePath \in Seq(Steps)
         /\ tree = <<>> => ValuePath = <<>>
         /\ InObject => ValuePath = Append(Top(paths), member) /\ member \in Keys
         /\ InArray => ValuePath = Append(Top(paths), "#")
<1>1. CASE tree = <<>>
  BY <1>1, EmptySeq DEF ValuePath, InObject, InArray
<1>2. CASE InObject
  <2>1. ValuePath = Append(Top(paths), member) /\ member \in Keys
    BY <1>2, StacksType DEF ValuePath, InObject, ValueAllowed, TypeOK
  <2>2. Top(paths) \in Seq(Steps) /\ member \in Steps
    BY <1>2, <2>1, StacksType DEF InObject, Steps
  <2>3. QED
    BY <1>2, <2>1, <2>2, PushProperties, StacksType DEF InObject
<1>3. CASE InArray
  <2>1. ValuePath = Append(Top(paths), "#")
    BY <1>3, StacksType DEF ValuePath, InArray, InObject
  <2>2. Top(paths) \in Seq(Steps) /\ "#" \in Steps
    BY <1>3, StacksType DEF InArray, Steps
  <2>3. QED
    BY <1>3, <2>1, <2>2, PushProperties, StacksType DEF InArray
<1>4. QED
  BY <1>1, <1>2, <1>3, StacksType DEF InObject, InArray

\* Short of its end a position moves within the query.
LEMMA NextPositionType ==
  ASSUME TypeOK, ~AtEnd, NEW step
  PROVE  NextPosition(step) \in 0 .. Len(Query)
<1>1. Current \in 0 .. Len(Query) /\ Current # Len(Query)
  BY StacksType DEF AtEnd
<1>2. Len(Query) \in Nat
  BY QueryType
<1>3. QED
  BY <1>1, <1>2 DEF NextPosition

\* Completing a value takes one position and one key.
LEMMA CompleteType ==
  ASSUME TypeOK, Complete
  PROVE  /\ positions' \in Seq(0 .. Len(Query)) /\ keys' \in Seq(Keys)
         /\ Len(positions') = Len(keys') + 1
         /\ pc' \in {pc, "panic"}
<1>1. CASE keys = <<>>
  BY <1>1 DEF Complete, TypeOK
<1>2. CASE keys # <<>>
  <2>1. /\ positions \in Seq(0 .. Len(Query)) /\ keys \in Seq(Keys)
        /\ Len(positions) = Len(keys) + 1
    BY DEF TypeOK
  <2>2. positions # <<>>
    BY StacksType
  <2>3. pc' = pc /\ positions' = Pop(positions) /\ keys' = Pop(keys)
    BY <1>2 DEF Complete
  <2>4. /\ Pop(positions) \in Seq(0 .. Len(Query)) /\ Len(Pop(positions)) = Len(positions) - 1
        /\ Pop(keys) \in Seq(Keys) /\ Len(Pop(keys)) = Len(keys) - 1 /\ Len(keys) \in Nat
    BY <1>2, <2>1, <2>2, PopProperties
  <2>5. QED
    BY <2>1, <2>3, <2>4
<1>3. QED
  BY <1>1, <1>2

\* A string that is collected.
LEMMA CollectType ==
  ASSUME TypeOK, read' = read + 1, NEW s \in Seq(1 .. read)
  PROVE  s \in Seq(1 .. read') /\ Append(s, read') \in Seq(1 .. read')
<1>1. 1 .. read \subseteq 1 .. read' /\ read' \in 1 .. read'
  <2>1. read \in Nat
    <3>1. MaxTokens \in Nat /\ read \in 0 .. MaxTokens
      BY QJsonAssumption DEF TypeOK
    <3>2. QED
      BY <3>1
  <2>2. QED
    BY <2>1
<1>2. s \in Seq(1 .. read')
  BY <1>1, SeqMonotonic
<1>3. QED
  BY <1>1, <1>2, PushProperties

\* What opening and closing an object or an array does to the input.
LEMMA OpenType ==
  ASSUME TypeOK, ValueAllowed, Len(tree) < MaxDepth, NEW open \in {"object", "array"},
         tree' = Append(tree, open), paths' = Append(paths, ValuePath)
  PROVE  /\ tree' \in Seq({"object", "array"}) /\ Len(tree') <= MaxDepth
         /\ paths' \in Seq(Seq(Steps)) /\ Len(paths') = Len(tree')
         /\ Top(tree') = open /\ tree' # <<>> /\ Len(tree') = Len(tree) + 1
<1>1. ValuePath \in Seq(Steps)
  BY ValuePathType
<1>2. /\ paths' \in Seq(Seq(Steps)) /\ Len(paths') = Len(paths) + 1
  BY <1>1, PushProperties DEF TypeOK, Steps
<1>3. /\ tree' \in Seq({"object", "array"}) /\ Len(tree') = Len(tree) + 1
      /\ Top(tree') = open /\ tree' # <<>>
  <2>1. tree \in Seq({"object", "array"})
    BY DEF TypeOK
  <2> DEFINE S == {"object", "array"}
  <2>2. tree \in Seq(S) /\ open \in S
    BY <2>1
  <2> HIDE DEF S
  <2>3. /\ tree' \in Seq(S) /\ Len(tree') = Len(tree) + 1
        /\ Top(tree') = open /\ tree' # <<>>
    BY <2>2, PushProperties
  <2>4. QED
    BY <2>3 DEF S
<1>4. Len(paths) = Len(tree) /\ Len(tree) \in Nat /\ MaxDepth \in Nat
  BY StacksType, QJsonAssumption DEF TypeOK
<1>5. Len(tree) + 1 <= MaxDepth
  BY <1>4, LessThan, Zenon
<1>6. QED
  BY <1>2, <1>3, <1>4, <1>5, Zenon

\* The object or array that closes goes from both stacks.
LEMMA CloseType ==
  ASSUME TypeOK, tree # <<>>, tree' = Pop(tree), paths' = Pop(paths)
  PROVE  /\ tree' \in Seq({"object", "array"}) /\ Len(tree') <= MaxDepth
         /\ paths' \in Seq(Seq(Steps)) /\ Len(paths') = Len(tree')
         /\ Len(tree') = Len(tree) - 1
         /\ \A i \in 1 .. Len(tree') : tree'[i] = tree[i] /\ paths'[i] = paths[i]
<1>1. paths # <<>> /\ paths \in Seq(Seq(Steps)) /\ Len(paths) = Len(tree)
  BY StacksType DEF TypeOK, Steps
<1>2. /\ paths' \in Seq(Seq(Steps)) /\ Len(paths') = Len(paths) - 1
      /\ \A i \in 1 .. Len(paths) - 1 : paths'[i] = paths[i]
  BY <1>1, PopProperties
<1>3. /\ tree' \in Seq({"object", "array"}) /\ Len(tree') = Len(tree) - 1
      /\ \A i \in 1 .. Len(tree) - 1 : tree'[i] = tree[i]
  BY PopProperties DEF TypeOK
<1>4. Len(tree) \in Nat /\ MaxDepth \in Nat /\ Len(tree) <= MaxDepth
  BY StacksType, QJsonAssumption DEF TypeOK
<1>5. Len(tree) - 1 <= MaxDepth
  BY <1>4
<1>6. QED
  BY <1>1, <1>2, <1>3, <1>5, Zenon

\* One more token leaves the strings collected so far among those read.
LEMMA ReadType ==
  ASSUME TypeOK, Token
  PROVE  /\ read' \in 0 .. MaxTokens /\ read' = read + 1 /\ pc = "running"
         /\ results \in Seq(1 .. read') /\ Append(results, read') \in Seq(1 .. read')
         /\ expected \in Seq(1 .. read') /\ Append(expected, read') \in Seq(1 .. read')
<1>1. pc = "running" /\ read < MaxTokens /\ read' = read + 1
  BY DEF Token
<1>2. read' \in 0 .. MaxTokens
  <2>1. MaxTokens \in Nat /\ read \in 0 .. MaxTokens
    BY QJsonAssumption DEF TypeOK
  <2>2. QED
    BY <1>1, <2>1
<1>3. results \in Seq(1 .. read) /\ expected \in Seq(1 .. read)
  BY DEF TypeOK
<1>4. QED
  BY <1>1, <1>2, <1>3, CollectType

\* The types after the { of an object.
LEMMA OpenObjectType ==
  ASSUME TypeOK, OpenObject
  PROVE  TypeOK'
<1>1. Token /\ ValueAllowed /\ Len(tree) < MaxDepth /\ tree' = Append(tree, "object")
      /\ key' = TRUE /\ paths' = Append(paths, ValuePath) /\ member' = None
      /\ UNCHANGED <<pc, positions, keys, results, expected, irregular>>
  BY DEF OpenObject
<1>2. /\ tree' \in Seq({"object", "array"}) /\ Len(tree') <= MaxDepth
      /\ paths' \in Seq(Seq(Steps)) /\ Len(paths') = Len(tree')
  BY <1>1, OpenType
<1>3. read' \in 0 .. MaxTokens /\ results \in Seq(1 .. read') /\ expected \in Seq(1 .. read')
  BY <1>1, ReadType
<1>4. QED
  BY <1>1, <1>2, <1>3, Zenon DEF TypeOK, Steps, InObject

\* The types after the [ of an array.
LEMMA OpenArrayType ==
  ASSUME TypeOK, OpenArray
  PROVE  TypeOK'
<1>1. Token /\ ValueAllowed /\ Len(tree) < MaxDepth /\ tree' = Append(tree, "array")
      /\ key' = FALSE /\ paths' = Append(paths, ValuePath) /\ member' = None
      /\ irregular' = (irregular \/ Nested \/ Unforeseen(ValuePath, "#"))
      /\ UNCHANGED <<keys, results, expected>>
  BY DEF OpenArray
<1>2. /\ tree' \in Seq({"object", "array"}) /\ Len(tree') <= MaxDepth /\ Top(tree') = "array"
      /\ paths' \in Seq(Seq(Steps)) /\ Len(paths') = Len(tree')
  BY <1>1, OpenType
<1>3. read' \in 0 .. MaxTokens /\ results \in Seq(1 .. read') /\ expected \in Seq(1 .. read')
      /\ pc = "running"
  BY <1>1, ReadType
<1>4. /\ pc' \in {"running", "panic"}
      /\ positions' \in Seq(0 .. Len(Query)) /\ Len(positions') = Len(positions)
  <2>1. CASE AtEnd
    BY <1>3, <2>1 DEF OpenArray, TypeOK
  <2>2. CASE ~AtEnd
    <3>1. positions' = [positions EXCEPT ![Len(positions)] = NextPosition("#")] /\ pc' = pc
      BY <2>2 DEF OpenArray
    <3>2. positions \in Seq(0 .. Len(Query)) /\ positions # <<>>
      BY StacksType DEF TypeOK
    <3>3. NextPosition("#") \in 0 .. Len(Query)
      BY <2>2, NextPositionType
    <3>4. positions' \in Seq(0 .. Len(Query)) /\ Len(positions') = Len(positions)
      BY <3>1, <3>2, <3>3, ExceptSeq
    <3>5. QED
      BY <1>3, <3>1, <3>4
  <2>3. QED
    BY <2>1, <2>2
<1>5. irregular' \in BOOLEAN
  BY <1>1 DEF TypeOK, Nested, InArray, Unforeseen
<1>6. QED
  BY <1>1, <1>2, <1>3, <1>4, <1>5 DEF TypeOK, Steps, InObject

\* The types after the end of an object.
LEMMA CloseObjectType ==
  ASSUME TypeOK, CloseObject
  PROVE  TypeOK'
<1>1. Token /\ InObject /\ member = None /\ tree' = Pop(tree) /\ key' = TRUE
      /\ paths' = Pop(paths) /\ UNCHANGED <<results, member, expected, irregular>>
  BY DEF CloseObject, KeyAllowed
<1>2. /\ tree' \in Seq({"object", "array"}) /\ Len(tree') <= MaxDepth
      /\ paths' \in Seq(Seq(Steps)) /\ Len(paths') = Len(tree')
  BY <1>1, CloseType DEF InObject
<1>3. read' \in 0 .. MaxTokens /\ results \in Seq(1 .. read') /\ expected \in Seq(1 .. read')
  BY <1>1, ReadType
<1>4. /\ positions' \in Seq(0 .. Len(Query)) /\ keys' \in Seq(Keys)
      /\ Len(positions') = Len(keys') + 1 /\ pc' \in {pc, "panic"}
  <2>1. Complete \/ UNCHANGED <<pc, positions, keys>>
    BY DEF CloseObject
  <2>2. QED
    BY <2>1, CompleteType DEF TypeOK
<1>5. QED
  BY <1>1, <1>2, <1>3, <1>4, Zenon DEF TypeOK, Steps

\* The types after the end of an array.
LEMMA CloseArrayType ==
  ASSUME TypeOK, CloseArray
  PROVE  TypeOK'
<1>1. Token /\ InArray /\ tree' = Pop(tree) /\ key' = TRUE
      /\ paths' = Pop(paths) /\ UNCHANGED <<results, member, expected, irregular>>
  BY DEF CloseArray
<1>2. /\ tree' \in Seq({"object", "array"}) /\ Len(tree') <= MaxDepth
      /\ paths' \in Seq(Seq(Steps)) /\ Len(paths') = Len(tree')
  BY <1>1, CloseType DEF InArray
<1>3. read' \in 0 .. MaxTokens /\ results \in Seq(1 .. read') /\ expected \in Seq(1 .. read')
  BY <1>1, ReadType
<1>4. /\ positions' \in Seq(0 .. Len(Query)) /\ keys' \in Seq(Keys)
      /\ Len(positions') = Len(keys') + 1 /\ pc' \in {pc, "panic"}
  <2>1. Complete \/ UNCHANGED <<pc, positions, keys>>
    BY DEF CloseArray
  <2>2. QED
    BY <2>1, CompleteType DEF TypeOK
<1>5. member = None
  BY <1>1, StacksType DEF TypeOK
<1>6. QED
  BY <1>1, <1>2, <1>3, <1>4, <1>5, Zenon DEF TypeOK, Steps

\* The types after a key.
LEMMA KeyType ==
  ASSUME TypeOK, NEW k \in Keys, Key(k)
  PROVE  TypeOK'
<1>1. Token /\ InObject /\ key' = FALSE /\ member' = k
      /\ irregular' = (irregular \/ Unforeseen(Top(paths), k))
      /\ UNCHANGED <<tree, results, paths, expected>>
  BY DEF Key
<1>2. read' \in 0 .. MaxTokens /\ results \in Seq(1 .. read') /\ expected \in Seq(1 .. read')
      /\ pc = "running"
  BY <1>1, ReadType
<1>3. /\ positions' \in Seq(0 .. Len(Query)) /\ keys' \in Seq(Keys)
      /\ Len(positions') = Len(keys') + 1 /\ pc' \in {pc, "panic"}
  <2>1. /\ positions \in Seq(0 .. Len(Query)) /\ keys \in Seq(Keys)
        /\ Len(positions) = Len(keys) + 1
    BY DEF TypeOK
  <2>2. CASE AtEnd
    BY <2>1, <2>2 DEF Key
  <2>3. CASE ~AtEnd
    <3>1. positions' = Append(positions, NextPosition(k)) /\ keys' = Append(keys, k) /\ pc' = pc
      BY <2>3 DEF Key
    <3>2. NextPosition(k) \in 0 .. Len(Query)
      BY <2>3, NextPositionType
    <3>3. /\ positions' \in Seq(0 .. Len(Query)) /\ Len(positions') = Len(positions) + 1
          /\ keys' \in Seq(Keys) /\ Len(keys') = Len(keys) + 1
      BY <2>1, <3>1, <3>2, PushProperties
    <3>4. QED
      BY <2>1, <3>1, <3>3
  <2>4. QED
    BY <2>2, <2>3
<1>4. k # None /\ irregular' \in BOOLEAN
  BY <1>1, QJsonAssumption DEF TypeOK, Unforeseen
<1>5. QED
  BY <1>1, <1>2, <1>3, <1>4 DEF TypeOK, InObject

\* The types after a string or a scalar that is a value.
LEMMA ValueType ==
  ASSUME TypeOK, StringValue \/ Scalar
  PROVE  TypeOK'
<1>1. Token /\ member' = None /\ key' \in {InObject, key, TRUE} /\ UNCHANGED <<tree, paths>>
      /\ (InObject => key') /\ irregular' \in BOOLEAN
      /\ results' \in {results, Append(results, read')}
      /\ expected' \in {expected, Append(expected, read')}
      /\ (Complete \/ UNCHANGED <<pc, positions, keys>>)
  BY DEF StringValue, Scalar, TypeOK, InObject
<1>2. read' \in 0 .. MaxTokens /\ results' \in Seq(1 .. read') /\ expected' \in Seq(1 .. read')
  BY <1>1, ReadType
<1>3. /\ positions' \in Seq(0 .. Len(Query)) /\ keys' \in Seq(Keys)
      /\ Len(positions') = Len(keys') + 1 /\ pc' \in {pc, "panic"}
  BY <1>1, CompleteType DEF TypeOK
<1>4. key' \in BOOLEAN
  BY <1>1 DEF TypeOK, InObject
<1>5. InObject' = InObject
  BY <1>1 DEF InObject
<1>6. QED
  BY <1>1, <1>2, <1>3, <1>4, <1>5 DEF TypeOK

\* Every step keeps the types.
LEMMA TypeStep ==
  ASSUME TypeOK, [Next]_vars
  PROVE  TypeOK'
<1>1. CASE EndOfInput \/ Malformed \/ Finished \/ UNCHANGED vars
  BY <1>1 DEF TypeOK, EndOfInput, Malformed, Finished, vars, parser, input, InObject
<1>2. QED
  BY <1>1, OpenObjectType, CloseObjectType, OpenArrayType, CloseArrayType, KeyType,
     ValueType DEF Next

\* The function begins with them.
LEMMA InitType == Init => TypeOK
<1> SUFFICES ASSUME Init PROVE TypeOK
  OBVIOUS
<1>1. /\ pc = "running" /\ read = 0 /\ key = FALSE /\ irregular = FALSE /\ member = None
      /\ positions = <<0>> /\ tree = <<>> /\ keys = <<>> /\ results = <<>>
      /\ paths = <<>> /\ expected = <<>>
  BY DEF Init
<1>2. 0 \in 0 .. Len(Query) /\ 0 \in 0 .. MaxTokens /\ 0 <= MaxDepth
  BY QueryType, QJsonAssumption
<1>3. <<0>> \in Seq(0 .. Len(Query)) /\ Len(<<0>>) = 1
  BY <1>2
<1>4. \A S : <<>> \in Seq(S) /\ Len(<<>>) = 0
  BY EmptySeq
<1>5. Len(positions) = Len(keys) + 1 /\ Len(paths) = Len(tree) /\ Len(tree) = 0
  BY <1>1, <1>3, <1>4
<1>6. ~InObject
  BY <1>1 DEF InObject
<1>7. QED
  BY <1>1, <1>2, <1>3, <1>4, <1>5, <1>6 DEF TypeOK

\* Every variable of QJson keeps its type, the stacks have the sizes that belong
\* together and a key is told from a value.
THEOREM TypeCorrect == Spec => []TypeOK
BY InitType, TypeStep, PTL DEF Spec

--------------------------------------------------------------------------------
(***************************************************************************)
(* Where a path is in the query.                                           *)
(***************************************************************************)

\* A path ends with the first n steps of the query, and with no other number.
Tracks(path, n) ==
  /\ n \in 0 .. Len(Query)
  /\ Matches(path, n)
  /\ \A m \in 1 .. Len(Query) : Matches(path, m) => m = n

\* Matches in terms of the elements of the path and the query.
LEMMA MatchesMeans ==
  ASSUME NEW path \in Seq(Steps), NEW n \in 0 .. Len(Query)
  PROVE  Matches(path, n) <=>
           /\ n <= Len(path)
           /\ \A i \in 1 .. n : path[Len(path) - n + i] = Query[i]
<1>1. n \in Nat /\ 1 \in Int /\ n \in Int /\ n <= Len(Query)
  BY QueryType
<1>2. \A i \in 1 .. n : Query[i] \in Steps
  BY <1>1, QueryType
<1>3. /\ Len(SubSeq(Query, 1, n)) = IF 1 <= n THEN n - 1 + 1 ELSE 0
      /\ \A i \in 1 .. n - 1 + 1 : SubSeq(Query, 1, n)[i] = Query[1 + i - 1]
  BY <1>1, <1>2, SubSeqProperties
<1>4. /\ Len(SubSeq(Query, 1, n)) = n
      /\ \A i \in 1 .. n : SubSeq(Query, 1, n)[i] = Query[i]
  BY <1>1, <1>3
<1> DEFINE start == SubSeq(Query, 1, n)
<1> HIDE DEF start
<1>5. Len(start) = n /\ \A i \in 1 .. n : start[i] = Query[i]
  BY <1>4 DEF start
<1>6. Matches(path, n) <=> EndsWith(path, start)
  BY DEF Matches, start
<1>7. QED
  BY <1>5, <1>6 DEF EndsWith

\* A path matches one step further if it ended with the steps before.
LEMMA MatchesStep ==
  ASSUME NEW path \in Seq(Steps), NEW step \in Steps, NEW m \in 1 .. Len(Query)
  PROVE  Matches(Append(path, step), m) <=> Query[m] = step /\ Matches(path, m - 1)
<1> DEFINE long == Append(path, step)
<1>1. m \in Nat /\ m \in 0 .. Len(Query) /\ m - 1 \in 0 .. Len(Query) /\ Len(path) \in Nat
  BY QueryType, LenProperties
<1>2. /\ long \in Seq(Steps) /\ Len(long) = Len(path) + 1
      /\ long[Len(path) + 1] = step
      /\ \A i \in 1 .. Len(path) : long[i] = path[i]
  BY AppendProperties
<1> HIDE DEF long
<1>3. Matches(long, m) <=>
        /\ m <= Len(path) + 1
        /\ \A i \in 1 .. m : long[Len(path) + 1 - m + i] = Query[i]
  <2>1. long \in Seq(Steps) /\ m \in 0 .. Len(Query) /\ Len(long) = Len(path) + 1
    BY <1>1, <1>2
  <2>2. Matches(long, m) <=>
          /\ m <= Len(long)
          /\ \A i \in 1 .. m : long[Len(long) - m + i] = Query[i]
    BY <2>1, MatchesMeans
  <2>3. QED
    BY <2>1, <2>2
<1>4. Matches(path, m - 1) <=>
        /\ m - 1 <= Len(path)
        /\ \A i \in 1 .. m - 1 : path[Len(path) - (m - 1) + i] = Query[i]
  BY <1>1, MatchesMeans
<1> DEFINE L == Len(path)
<1> HIDE DEF L
<1>5. L \in Nat /\ m \in Nat \ {0}
  BY <1>1 DEF L
<1>6. CASE m <= L + 1
  <2>1. L + 1 - m + m = L + 1 /\ m \in 1 .. m
    BY <1>5
  <2>2. \A i \in 1 .. m - 1 : /\ L + 1 - m + i = L - (m - 1) + i
                              /\ L + 1 - m + i \in 1 .. L /\ i \in 1 .. m
    BY <1>5, <1>6
  <2>3. \A i \in 1 .. m : i = m \/ i \in 1 .. m - 1
    BY <1>5
  <2>4. /\ long[L + 1] = step /\ \A i \in 1 .. L : long[i] = path[i]
        /\ Matches(long, m) <=> \A i \in 1 .. m : long[L + 1 - m + i] = Query[i]
        /\ Matches(path, m - 1) <=> \A i \in 1 .. m - 1 : path[L - (m - 1) + i] = Query[i]
    <3>1. m - 1 <= L
      BY <1>5, <1>6
    <3>2. QED
      BY <1>2, <1>3, <1>4, <1>6, <3>1 DEF L
  <2>5. ASSUME Matches(long, m) PROVE Query[m] = step /\ Matches(path, m - 1)
    <3>1. Query[m] = step
      BY <2>1, <2>4, <2>5
    <3>2. \A i \in 1 .. m - 1 : path[L - (m - 1) + i] = Query[i]
      <4> TAKE i \in 1 .. m - 1
      <4>1. long[L + 1 - m + i] = Query[i]
        BY <2>2, <2>4, <2>5
      <4>2. long[L + 1 - m + i] = path[L + 1 - m + i]
        BY <2>2, <2>4
      <4>3. QED
        BY <2>2, <4>1, <4>2
    <3>3. QED
      BY <2>4, <3>1, <3>2
  <2>6. ASSUME Query[m] = step, Matches(path, m - 1) PROVE Matches(long, m)
    <3>1. \A i \in 1 .. m : long[L + 1 - m + i] = Query[i]
      <4> TAKE i \in 1 .. m
      <4>1. CASE i = m
        BY <2>1, <2>4, <2>6, <4>1
      <4>2. CASE i \in 1 .. m - 1
        <5>1. path[L - (m - 1) + i] = Query[i]
          BY <2>4, <2>6, <4>2
        <5>2. long[L + 1 - m + i] = path[L + 1 - m + i]
          BY <2>2, <2>4, <4>2
        <5>3. QED
          BY <2>2, <4>2, <5>1, <5>2
      <4>3. QED
        BY <2>3, <4>1, <4>2
    <3>2. QED
      BY <2>4, <3>1
  <2>7. QED
    BY <2>5, <2>6 DEF long
<1>7. CASE ~(m <= L + 1)
  <2>1. ~(m - 1 <= L)
    BY <1>5, <1>7
  <2>2. QED
    BY <1>3, <1>4, <1>7, <2>1 DEF L, long
<1>8. QED
  BY <1>6, <1>7

\* The query begins once only.
LEMMA MatchUnique ==
  ASSUME NEW path \in Seq(Steps), NEW m \in 1 .. Len(Query), NEW n \in 1 .. Len(Query),
         Matches(path, m), Matches(path, n)
  PROVE  m = n
<1>1. ASSUME NEW a \in 1 .. Len(Query), NEW b \in 1 .. Len(Query),
             Matches(path, a), Matches(path, b), a < b
      PROVE  FALSE
  <2>1. a \in 0 .. Len(Query) /\ b \in 0 .. Len(Query) /\ Len(path) \in Nat /\ Len(Query) \in Nat
    BY QueryType, LenProperties
  <2>2. /\ b <= Len(path)
        /\ \A i \in 1 .. a : path[Len(path) - a + i] = Query[i]
        /\ \A i \in 1 .. b : path[Len(path) - b + i] = Query[i]
    BY <1>1, <2>1, MatchesMeans
  <2>3. b - a + 1 \in 1 .. b /\ 1 \in 1 .. a /\ b - a + 1 \in 2 .. Len(Query)
        /\ Len(path) - b + (b - a + 1) = Len(path) - a + 1
    BY <1>1, <2>1
  <2>4. path[Len(path) - a + 1] = Query[1] /\ path[Len(path) - a + 1] = Query[b - a + 1]
    BY <2>2, <2>3
  <2>5. QED
    BY <2>3, <2>4, QJsonAssumption
<1>2. m < n \/ n < m \/ m = n
  BY QueryType
<1>3. QED
  BY <1>1, <1>2

\* There is one position for a path.
LEMMA TracksUnique ==
  ASSUME NEW path, NEW m, NEW n, Tracks(path, m), Tracks(path, n)
  PROVE  m = n
<1>1. m \in 0 .. Len(Query) /\ n \in 0 .. Len(Query)
  BY DEF Tracks
<1>2. m \in 1 .. Len(Query) => m = n
  BY DEF Tracks
<1>3. n \in 1 .. Len(Query) => m = n
  BY DEF Tracks
<1>4. QED
  BY <1>1, <1>2, <1>3, QueryType

\* Before its first key no path has entered the query.
HasKey(path) == \E i \in 1 .. Len(path) : path[i] \in Keys

\* Every path ends with none of the query.
LEMMA MatchesNothing ==
  ASSUME NEW path \in Seq(Steps)
  PROVE  Matches(path, 0)
<1>1. 0 \in 0 .. Len(Query) /\ Len(path) \in Nat
  BY QueryType, LenProperties
<1>2. 0 <= Len(path) /\ \A i \in 1 .. 0 : path[Len(path) - 0 + i] = Query[i]
  BY <1>1
<1>3. QED
  BY <1>1, <1>2, MatchesMeans

\* The query begins with a key, so a path without keys has not entered it.
LEMMA NoKeyTracks ==
  ASSUME NEW path \in Seq(Steps), ~HasKey(path)
  PROVE  Tracks(path, 0)
<1>1. ASSUME NEW m \in 1 .. Len(Query), Matches(path, m) PROVE FALSE
  <2>1. m \in 0 .. Len(Query) /\ Len(path) \in Nat /\ m \in Nat
    BY QueryType, LenProperties
  <2>2. m <= Len(path) /\ \A i \in 1 .. m : path[Len(path) - m + i] = Query[i]
    BY <1>1, <2>1, MatchesMeans
  <2>3. Len(path) - m + 1 \in 1 .. Len(path) /\ 1 \in 1 .. m
    BY <2>1, <2>2
  <2>4. path[Len(path) - m + 1] = Query[1]
    BY <2>2, <2>3
  <2>5. Query[1] \in Keys
    <3>1. 1 \in 1 .. Len(Query)
      BY QueryType
    <3>2. QED
      BY <3>1, QueryType, QJsonAssumption DEF Steps
  <2>6. QED
    BY <2>3, <2>4, <2>5 DEF HasKey
<1>2. 0 \in 0 .. Len(Query)
  BY QueryType
<1>3. QED
  BY <1>1, <1>2, MatchesNothing DEF Tracks

\* A step that is not unforeseen.
LEMMA StepTracks ==
  ASSUME NEW path \in Seq(Steps), NEW step \in Steps, NEW n, Tracks(path, n),
         ~Unforeseen(path, step)
  PROVE  /\ n # Len(Query)
         /\ Tracks(Append(path, step), IF Query[n + 1] = step THEN n + 1 ELSE 0)
<1>1. /\ n \in 0 .. Len(Query) /\ Matches(path, n)
      /\ \A m \in 1 .. Len(Query) : Matches(path, m) => m = n
  BY DEF Tracks
<1>2. \A m \in 1 .. Len(Query) : Matches(path, m) => m # Len(Query) /\ step # Query[1]
  BY QueryType DEF Unforeseen
<1>3. Len(Query) \in Nat \ {0}
  BY QueryType
<1>4. n # Len(Query)
  BY <1>1, <1>2, <1>3
<1>5. Append(path, step) \in Seq(Steps)
  BY PushProperties
<1>6. CASE Query[n + 1] = step
  <2>1. n + 1 \in 1 .. Len(Query) /\ n + 1 \in 0 .. Len(Query) /\ n + 1 - 1 = n
    BY <1>1, <1>3, <1>4
  <2>2. Matches(Append(path, step), n + 1)
    BY <1>1, <1>6, <2>1, MatchesStep
  <2>3. \A m \in 1 .. Len(Query) : Matches(Append(path, step), m) => m = n + 1
    BY <1>5, <2>1, <2>2, MatchUnique
  <2>4. QED
    BY <1>4, <1>6, <2>1, <2>2, <2>3 DEF Tracks
<1>7. CASE Query[n + 1] # step
  <2>1. ASSUME NEW m \in 1 .. Len(Query), Matches(Append(path, step), m) PROVE FALSE
    <3>1. Query[m] = step /\ Matches(path, m - 1)
      BY <2>1, MatchesStep
    <3>2. m - 1 = 0 \/ m - 1 \in 1 .. Len(Query)
      BY <1>3
    <3>3. CASE m - 1 = 0
      <4>1. m = 1
        BY <1>3, <3>3
      <4>2. n # 0
        BY <1>7, <3>1, <4>1
      <4>3. n \in 1 .. Len(Query)
        BY <1>1, <1>3, <4>2
      <4>4. QED
        BY <1>1, <1>2, <3>1, <4>1, <4>3
    <3>4. CASE m - 1 \in 1 .. Len(Query)
      <4>1. m - 1 = n
        BY <1>1, <3>1, <3>4
      <4>2. m = n + 1
        BY <1>3, <4>1
      <4>3. QED
        BY <1>7, <3>1, <4>2
    <3>5. QED
      BY <3>2, <3>3, <3>4
  <2>2. 0 \in 0 .. Len(Query)
    BY <1>3
  <2>3. QED
    BY <1>4, <1>5, <1>7, <2>1, <2>2, MatchesNothing DEF Tracks
<1>8. QED
  BY <1>6, <1>7

--------------------------------------------------------------------------------
(***************************************************************************)
(* On an input the function is made for, the number of positions tells the *)
(* depth of the keys.  level[i] is the number of the position in which the *)
(* i-th object or array was opened: an object is one level above what it   *)
(* is in, an array, which shares its position with the value of the key    *)
(* it is, is not.                                                          *)
(***************************************************************************)

\* n objects and arrays t, with the paths p to them, and m positions.
Climbing(level, n, m, t, p) ==
  /\ level \in [1 .. n -> 1 .. m]
  /\ n # 0 => level[1] = 1
  /\ \A i \in 1 .. n - 1 : level[i + 1] = IF t[i] = "object" THEN level[i] + 1 ELSE level[i]
  /\ \A i, j \in 1 .. n : i <= j => level[i] <= level[j]
  /\ \A i \in 1 .. n : HasKey(p[i]) <=> level[i] > 1
  /\ \A i \in 1 .. n - 1 : t[i + 1] = "array" /\ level[i + 1] > 1 => t[i] = "object"

\* The position r of each level is where the path to it is in the query.
Following(level, n, t, p, r) ==
  \A i \in 1 .. n : Tracks(IF t[i] = "object" THEN p[i] ELSE Append(p[i], "#"), r[level[i]])

Climbs(level) == Climbing(level, Len(tree), Len(positions), tree, paths)

Follows(level) ==
  /\ Following(level, Len(tree), tree, paths, positions)
  /\ tree # <<>> /\ member = None => Len(positions) = level[Len(tree)]
  /\ member # None => Len(positions) = level[Len(tree)] + 1
  /\ member # None => Tracks(Append(Top(paths), member), Current)
  /\ tree = <<>> => Len(positions) = 1 /\ positions[1] = 0

RegularInv ==
  ~irregular =>
    /\ \E level : Climbs(level) /\ Follows(level)
    /\ results = expected
    /\ pc # "panic"

\* A key on the path to an object or array stays on what is in it.
LEMMA HasKeyAppend ==
  ASSUME NEW path \in Seq(Steps), NEW step \in Steps
  PROVE  HasKey(Append(path, step)) <=> HasKey(path) \/ step \in Keys
<1> DEFINE long == Append(path, step)
<1>1. /\ Len(long) = Len(path) + 1 /\ long[Len(path) + 1] = step
      /\ \A i \in 1 .. Len(path) : long[i] = path[i]
  BY AppendProperties
<1>2. Len(path) \in Nat
  BY LenProperties
<1> HIDE DEF long
<1>3. HasKey(long) <=> HasKey(path) \/ step \in Keys
  <2>1. \A i \in 1 .. Len(path) + 1 : i \in 1 .. Len(path) \/ i = Len(path) + 1
    BY <1>2
  <2>2. Len(path) + 1 \in 1 .. Len(path) + 1
        /\ \A i \in 1 .. Len(path) : i \in 1 .. Len(path) + 1
    BY <1>2
  <2>3. QED
    BY <1>1, <2>1, <2>2 DEF HasKey
<1>4. QED
  BY <1>3 DEF long

\* A document begins outside the query.
LEMMA EmptyTracks == Tracks(<<>>, 0) /\ ~HasKey(<<>>)
<1>1. <<>> \in Seq(Steps) /\ Len(<<>>) = 0
  BY EmptySeq
<1>2. ~HasKey(<<>>)
  BY <1>1 DEF HasKey
<1>3. QED
  BY <1>1, <1>2, NoKeyTracks

\* The path to each object and array is a sequence of steps.
LEMMA PathsType ==
  ASSUME TypeOK, NEW i \in 1 .. Len(tree)
  PROVE  paths[i] \in Seq(Steps) /\ tree[i] \in {"object", "array"}
<1>1. paths[i] \in Seq(Steps)
  BY ElementOfSeq DEF TypeOK, Steps
<1>2. tree[i] \in {"object", "array"}
  BY ElementOfSeq DEF TypeOK
<1>3. QED
  BY <1>1, <1>2

\* The innermost object or array.
LEMMA Innermost ==
  ASSUME TypeOK
  PROVE  /\ tree # <<>> => Len(tree) \in 1 .. Len(tree)
         /\ Len(tree) # 0 <=> tree # <<>>
         /\ Top(paths) = paths[Len(tree)] /\ Top(tree) = tree[Len(tree)]
         /\ InObject <=> tree # <<>> /\ tree[Len(tree)] = "object"
         /\ InArray <=> tree # <<>> /\ tree[Len(tree)] = "array"
         /\ member # None => InObject
<1>1. tree # <<>> => Len(tree) \in 1 .. Len(tree)
  BY StacksType, LastOfInterval, Zenon
<1>2. Top(paths) = paths[Len(tree)] /\ Top(tree) = tree[Len(tree)]
  BY DEF TypeOK, Top
<1>3. Len(tree) # 0 <=> tree # <<>>
  BY StacksType, Zenon
<1>4. member # None => InObject
  BY DEF TypeOK
<1>5. QED
  BY <1>1, <1>2, <1>3, <1>4, Zenon DEF InObject, InArray

\* Where a value and a key come, the last position is where their path is.
LEMMA HereTracks ==
  ASSUME TypeOK, NEW level, Climbs(level), Follows(level)
  PROVE  /\ ValueAllowed => Tracks(ValuePath, Current)
         /\ KeyAllowed => Tracks(Top(paths), Current) /\ Top(paths) \in Seq(Steps)
<1>1. ASSUME tree # <<>>, member = None
      PROVE  Tracks(IF tree[Len(tree)] = "object" THEN paths[Len(tree)]
                                              ELSE Append(paths[Len(tree)], "#"), Current)
  <2>1. positions[level[Len(tree)]] = Current
    BY <1>1 DEF Follows, Current, Top
  <2>2. Len(tree) \in 1 .. Len(tree)
    BY <1>1, Innermost
  <2>3. QED
    BY <2>1, <2>2, Zenon DEF Follows, Following
<1>2. ASSUME ValueAllowed PROVE Tracks(ValuePath, Current)
  <2>1. CASE tree = <<>>
    BY <1>2, <2>1, ValuePathType, EmptyTracks DEF Follows, Current, Top
  <2>2. CASE InObject
    BY <1>2, <2>2, ValuePathType DEF Follows, ValueAllowed
  <2>3. CASE InArray
    <3>1. tree # <<>> /\ tree[Len(tree)] # "object" /\ Top(paths) = paths[Len(tree)]
      BY <2>3, Innermost
    <3>2. member = None
      BY <3>1, Innermost
    <3>3. QED
      BY <1>1, <1>2, <2>3, <3>1, <3>2, ValuePathType
  <2>4. QED
    BY <2>1, <2>2, <2>3, StacksType, Zenon DEF InObject, InArray
<1>3. ASSUME KeyAllowed PROVE Tracks(Top(paths), Current) /\ Top(paths) \in Seq(Steps)
  <2>1. tree # <<>> /\ tree[Len(tree)] = "object" /\ member = None /\ Top(paths) = paths[Len(tree)]
    BY <1>3, Innermost DEF KeyAllowed
  <2>2. QED
    BY <1>1, <2>1, StacksType
<1>4. QED
  BY <1>2, <1>3

\* The level of what is opened here.
LEMMA OpenedLevel ==
  ASSUME TypeOK, NEW level, Climbs(level), Follows(level), ValueAllowed
  PROVE  /\ tree = <<>> => Len(positions) = 1
         /\ tree # <<>> => level[Len(tree)] \in 1 .. Len(positions)
         /\ tree # <<>> /\ tree[Len(tree)] = "object" => Len(positions) = level[Len(tree)] + 1
         /\ tree # <<>> /\ tree[Len(tree)] # "object" => Len(positions) = level[Len(tree)]
         /\ HasKey(ValuePath) <=> Len(positions) > 1
<1>1. level \in [1 .. Len(tree) -> 1 .. Len(positions)]
      /\ \A i \in 1 .. Len(tree) : HasKey(paths[i]) <=> level[i] > 1
  BY DEF Climbs, Climbing
<1>2. tree # <<>> => level[Len(tree)] \in 1 .. Len(positions)
  BY <1>1, Innermost
<1>3. tree = <<>> => Len(positions) = 1
  BY DEF Follows
<1>4. Len(positions) \in Nat
  BY StacksType
<1>5. CASE tree = <<>>
  <2>1. ~HasKey(ValuePath)
    BY <1>5, ValuePathType, EmptyTracks
  <2>2. ~(Len(positions) > 1)
    <3>1. Len(positions) = 1
      BY <1>3, <1>5
    <3>2. QED
      BY <3>1
  <2>3. QED
    BY <1>3, <1>5, <2>1, <2>2
<1>6. CASE InObject
  <2>1. tree # <<>> /\ tree[Len(tree)] = "object" /\ member # None /\ member \in Keys
    BY <1>6, Innermost, ValuePathType DEF ValueAllowed
  <2>2. HasKey(ValuePath)
    <3>1. ValuePath = Append(Top(paths), member) /\ Top(paths) \in Seq(Steps) /\ member \in Steps
      BY <1>6, <2>1, ValuePathType, StacksType DEF Steps
    <3>2. QED
      BY <2>1, <3>1, HasKeyAppend
  <2>3. Len(positions) = level[Len(tree)] + 1
    BY <2>1 DEF Follows
  <2>4. Len(positions) > 1
    BY <1>2, <1>4, <2>1, <2>3
  <2>5. QED
    BY <1>2, <2>1, <2>2, <2>3, <2>4
<1>7. CASE InArray
  <2>1. tree # <<>> /\ tree[Len(tree)] # "object" /\ member = None /\ Len(tree) \in 1 .. Len(tree)
    <3>1. tree # <<>> /\ tree[Len(tree)] # "object" /\ Len(tree) \in 1 .. Len(tree)
      BY <1>7, Innermost
    <3>2. QED
      BY <3>1, Innermost
  <2>2. Len(positions) = level[Len(tree)]
    BY <2>1 DEF Follows
  <2>3. HasKey(ValuePath) <=> HasKey(paths[Len(tree)])
    <3>1. ValuePath = Append(Top(paths), "#") /\ Top(paths) \in Seq(Steps)
          /\ Top(paths) = paths[Len(tree)] /\ "#" \in Steps /\ "#" \notin Keys
      BY <1>7, <2>1, Innermost, ValuePathType, StacksType, QJsonAssumption DEF Steps
    <3>2. QED
      BY <3>1, HasKeyAppend
  <2>4. HasKey(paths[Len(tree)]) <=> Len(positions) > 1
    BY <1>1, <2>1, <2>2
  <2>5. QED
    BY <1>2, <2>1, <2>2, <2>3, <2>4
<1>8. QED
  BY <1>5, <1>6, <1>7, StacksType, Zenon DEF InObject, InArray

\* What OpenObject and OpenArray do to the stacks.
LEMMA OpenLevels ==
  ASSUME TypeOK, NEW level, Climbs(level), Follows(level), ValueAllowed,
         NEW open \in {"object", "array"},
         tree' = Append(tree, open), paths' = Append(paths, ValuePath), member' = None,
         Len(positions') = Len(positions),
         \A i \in 1 .. Len(tree) : positions'[level[i]] = positions[level[i]],
         Tracks(IF open = "object" THEN ValuePath ELSE Append(ValuePath, "#"),
                positions'[Len(positions)]),
         open = "array" /\ InArray => Len(positions) = 1
  PROVE  \E new : Climbs(new)' /\ Follows(new)'
<1>1. /\ Len(tree') = Len(tree) + 1 /\ Len(tree) \in Nat /\ tree' # <<>>
      /\ tree'[Len(tree) + 1] = open /\ paths'[Len(tree) + 1] = ValuePath
      /\ \A i \in 1 .. Len(tree) : tree'[i] = tree[i] /\ paths'[i] = paths[i]
  <2> DEFINE S == {"object", "array"}
  <2>1. tree \in Seq(S) /\ open \in S /\ paths \in Seq(Seq(Steps)) /\ ValuePath \in Seq(Steps)
        /\ Len(paths) = Len(tree)
    BY ValuePathType DEF TypeOK, Steps
  <2> HIDE DEF S
  <2>2. /\ Len(tree') = Len(tree) + 1 /\ Len(tree) \in Nat /\ tree' # <<>> /\ Top(tree') = open
        /\ \A i \in 1 .. Len(tree) : tree'[i] = tree[i]
    <3>1. LET t == Append(tree, open)
          IN  /\ Len(t) = Len(tree) + 1 /\ Len(tree) \in Nat /\ t # <<>> /\ Top(t) = open
              /\ \A i \in 1 .. Len(tree) : t[i] = tree[i]
      BY <2>1, PushProperties
    <3>2. QED
      BY <3>1, Zenon
  <2>3. /\ Len(paths') = Len(tree) + 1 /\ Top(paths') = ValuePath
        /\ \A i \in 1 .. Len(tree) : paths'[i] = paths[i]
    BY <2>1, PushProperties
  <2>4. QED
    BY <2>2, <2>3, Zenon DEF Top
<1>2. PICK new : new = [i \in 1 .. Len(tree) + 1 |->
                          IF i = Len(tree) + 1 THEN Len(positions) ELSE level[i]]
  OBVIOUS
<1>3. Len(positions) \in Nat \ {0} /\ (Len(tree) # 0 <=> tree # <<>>)
  BY StacksType
<1>4. /\ Len(tree) = 0 => Len(positions) = 1
      /\ Len(tree) # 0 /\ tree[Len(tree)] = "object" => Len(positions) = level[Len(tree)] + 1
      /\ Len(tree) # 0 /\ tree[Len(tree)] # "object" => Len(positions) = level[Len(tree)]
      /\ HasKey(paths'[Len(tree) + 1]) <=> Len(positions) > 1
  BY <1>1, <1>3, OpenedLevel
<1>5. tree'[Len(tree) + 1] = "array" /\ Len(tree) # 0 /\ Len(positions) > 1
        => tree[Len(tree)] = "object"
  <2>1. Len(tree) # 0 => tree[Len(tree)] \in {"object", "array"}
    BY <1>1, PathsType
  <2>2. open = "array" /\ tree # <<>> /\ tree[Len(tree)] = "array" => Len(positions) = 1
    BY Innermost
  <2>3. QED
    BY <1>1, <1>3, <2>1, <2>2
<1> DEFINE n == Len(tree)
           m == Len(positions)
           k == Len(tree')
           T == tree'
           Q == paths'
           R == positions'
<1>6. Climbing(new, k, m, T, Q)
  <2>1. Climbing(level, Len(tree), Len(positions), tree, paths)
    BY DEF Climbs
  <2>2. /\ n \in Nat /\ m \in Nat \ {0} /\ k = n + 1
        /\ Climbing(level, n, m, tree, paths)
        /\ \A i \in 1 .. n : T[i] = tree[i] /\ Q[i] = paths[i]
        /\ n = 0 => m = 1
        /\ n # 0 /\ tree[n] = "object" => m = level[n] + 1
        /\ n # 0 /\ tree[n] # "object" => m = level[n]
        /\ HasKey(Q[k]) <=> m > 1
        /\ T[k] = "array" /\ n # 0 /\ m > 1 => tree[n] = "object"
        /\ new = [i \in 1 .. k |-> IF i = k THEN m ELSE level[i]]
    BY <1>1, <1>2, <1>3, <1>4, <1>5, <2>1
  <2> HIDE DEF n, m, k, T, Q
  <2>3. /\ level \in [1 .. n -> 1 .. m]
        /\ n # 0 => level[1] = 1
        /\ \A i \in 1 .. n - 1 :
             level[i + 1] = IF tree[i] = "object" THEN level[i] + 1 ELSE level[i]
        /\ \A i, j \in 1 .. n : i <= j => level[i] <= level[j]
        /\ \A i \in 1 .. n : HasKey(paths[i]) <=> level[i] > 1
        /\ \A i \in 1 .. n - 1 : tree[i + 1] = "array" /\ level[i + 1] > 1 => tree[i] = "object"
    BY <2>2 DEF Climbing
  <2>4. /\ \A i \in 1 .. n : new[i] = level[i] /\ level[i] \in 1 .. m /\ level[i] \in Nat
        /\ new[k] = m /\ new \in [1 .. k -> 1 .. m]
    <3>1. \A i \in 1 .. k : i = k \/ i \in 1 .. n
      BY <2>2
    <3>2. \A i \in 1 .. n : i \in 1 .. k /\ i # k /\ level[i] \in 1 .. m /\ level[i] \in Nat
      BY <2>2, <2>3
    <3>3. k \in 1 .. k /\ m \in 1 .. m
      BY <2>2
    <3>4. QED
      BY <2>2, <3>1, <3>2, <3>3
  <2>5. new[1] = 1
    BY <2>2, <2>3, <2>4
  <2>6. \A i, j \in 1 .. k : i <= j => new[i] <= new[j]
    <3> SUFFICES ASSUME NEW i \in 1 .. k, NEW j \in 1 .. k, i <= j
                 PROVE  new[i] <= new[j]
      OBVIOUS
    <3>1. i \in 1 .. n => new[i] \in 1 .. m
      BY <2>4
    <3>2. CASE j = k
      BY <2>2, <2>4, <3>1, <3>2
    <3>3. CASE j # k
      <4>1. i \in 1 .. n /\ j \in 1 .. n
        BY <2>2, <3>3
      <4>2. QED
        BY <2>3, <2>4, <4>1
    <3>4. QED
      BY <3>2, <3>3
  <2>7. \A i \in 1 .. n : i = n \/ (i \in 1 .. n - 1 /\ i + 1 \in 1 .. n)
    BY <2>2
  <2>8. \A i \in 1 .. n : new[i + 1] = IF T[i] = "object" THEN new[i] + 1 ELSE new[i]
    <3> TAKE i \in 1 .. n
    <3>1. CASE i = n
      BY <2>2, <2>4, <3>1
    <3>2. CASE i \in 1 .. n - 1 /\ i + 1 \in 1 .. n
      <4>1. new[i] = level[i] /\ new[i + 1] = level[i + 1] /\ T[i] = tree[i]
        BY <2>2, <2>4, <3>2
      <4>2. QED
        BY <2>3, <3>2, <4>1
    <3>3. QED
      BY <2>7, <3>1, <3>2
  <2>9. \A i \in 1 .. k : HasKey(Q[i]) <=> new[i] > 1
    <3>1. \A i \in 1 .. k : i = k \/ i \in 1 .. n
      BY <2>2
    <3>2. QED
      BY <2>2, <2>3, <2>4, <3>1
  <2>10. \A i \in 1 .. n : T[i + 1] = "array" /\ new[i + 1] > 1 => T[i] = "object"
    <3> TAKE i \in 1 .. n
    <3>1. CASE i = n
      BY <2>2, <2>4, <3>1
    <3>2. CASE i \in 1 .. n - 1 /\ i + 1 \in 1 .. n
      BY <2>2, <2>3, <2>4, <3>2
    <3>3. QED
      BY <2>7, <3>1, <3>2
  <2>11. \A i : i \in 1 .. k - 1 => i \in 1 .. n
    BY <2>2
  <2>12. k \in Nat /\ new \in [1 .. k -> 1 .. m] /\ new[1] = 1
    BY <2>2, <2>4, <2>5
  <2>13. /\ \A i, j \in 1 .. k : i <= j => new[i] <= new[j]
         /\ \A i \in 1 .. k : HasKey(Q[i]) <=> new[i] > 1
    BY <2>2, <2>6, <2>9
  <2>14. \A i \in 1 .. k - 1 : new[i + 1] = IF T[i] = "object" THEN new[i] + 1 ELSE new[i]
    BY <2>8, <2>11
  <2>15. \A i \in 1 .. k - 1 : T[i + 1] = "array" /\ new[i + 1] > 1 => T[i] = "object"
    BY <2>10, <2>11
  <2>16. QED
    BY <2>12, <2>13, <2>14, <2>15, Zenon DEF Climbing
<1>7. Following(new, k, T, Q, R)
  <2>1. level \in [1 .. Len(tree) -> 1 .. Len(positions)]
        /\ Following(level, Len(tree), tree, paths, positions)
    BY DEF Climbs, Climbing, Follows
  <2>2. Tracks(IF tree'[Len(tree) + 1] = "object" THEN paths'[Len(tree) + 1]
               ELSE Append(paths'[Len(tree) + 1], "#"), positions'[Len(positions)])
    BY <1>1
  <2>3. /\ n \in Nat /\ m \in Nat \ {0} /\ k = n + 1 /\ level \in [1 .. n -> 1 .. m]
        /\ Following(level, n, tree, paths, positions)
        /\ \A i \in 1 .. n : T[i] = tree[i] /\ Q[i] = paths[i] /\ R[level[i]] = positions[level[i]]
        /\ Tracks(IF T[k] = "object" THEN Q[k] ELSE Append(Q[k], "#"), R[m])
        /\ new = [i \in 1 .. k |-> IF i = k THEN m ELSE level[i]]
    BY <1>1, <1>2, <1>3, <2>1, <2>2
  <2> HIDE DEF n, m, k, T, Q, R
  <2> SUFFICES ASSUME NEW i \in 1 .. k
               PROVE  Tracks(IF T[i] = "object" THEN Q[i] ELSE Append(Q[i], "#"), R[new[i]])
    BY Zenon DEF Following
  <2>4. CASE i = k
    <3>1. new[k] = m
      BY <2>3
    <3>2. QED
      BY <2>3, <2>4, <3>1
  <2>5. CASE i # k
    <3>1. i \in 1 .. n /\ new[i] = level[i]
      BY <2>3, <2>5
    <3>2. QED
      BY <2>3, <3>1 DEF Following
  <2>6. QED
    BY <2>4, <2>5
<1>8. Climbs(new)'
  BY <1>1, <1>6 DEF Climbs
<1>9. Len(positions) = new[Len(tree) + 1]
  BY <1>1, <1>2
<1>10. Follows(new)'
  BY <1>1, <1>7, <1>9 DEF Follows
<1>11. QED
  BY <1>8, <1>10

\* What CloseObject and CloseArray do to the stacks.  The last position is that
\* of a value that is complete, or goes on to be that of what it is in.
LEMMA CloseLevels ==
  ASSUME TypeOK, NEW level, Climbs(level), Follows(level), tree # <<>>, member = None,
         tree' = Pop(tree), paths' = Pop(paths), member' = None,
         \/ /\ positions' = positions
            /\ Len(tree) > 1 => level[Len(tree) - 1] = level[Len(tree)]
         \/ /\ positions' = Pop(positions)
            /\ Len(tree) > 1 /\ level[Len(tree) - 1] = level[Len(tree)] - 1
  PROVE  \E new : Climbs(new)' /\ Follows(new)'
<1> DEFINE n == Len(tree)
           m == Len(positions)
           k == Len(tree')
           T == tree'
           Q == paths'
           R == positions'
<1>1. /\ k = n - 1 /\ n \in Nat \ {0} /\ (T # <<>> <=> k # 0)
      /\ \A i \in 1 .. k : T[i] = tree[i] /\ Q[i] = paths[i]
  <2>1. /\ k = n - 1 /\ T \in Seq({"object", "array"})
        /\ \A i \in 1 .. k : T[i] = tree[i] /\ Q[i] = paths[i]
    BY CloseType
  <2>2. T # <<>> <=> k # 0
    BY <2>1, EmptySeq
  <2>3. n \in Nat /\ n # 0
    BY StacksType
  <2>4. QED
    BY <2>1, <2>2, <2>3
<1>2. /\ level \in [1 .. n -> 1 .. m]
      /\ n # 0 => level[1] = 1
      /\ \A i \in 1 .. n - 1 : level[i + 1] = IF tree[i] = "object" THEN level[i] + 1 ELSE level[i]
      /\ \A i, j \in 1 .. n : i <= j => level[i] <= level[j]
      /\ \A i \in 1 .. n : HasKey(paths[i]) <=> level[i] > 1
      /\ \A i \in 1 .. n - 1 : tree[i + 1] = "array" /\ level[i + 1] > 1 => tree[i] = "object"
  BY DEF Climbs, Climbing
<1>3. m \in Nat \ {0} /\ m = level[n]
  BY StacksType DEF Follows
<1>4. \/ R = positions /\ Len(R) = m /\ (n > 1 => level[n - 1] = level[n])
      \/ /\ Len(R) = m - 1 /\ n > 1 /\ level[n - 1] = level[n] - 1
         /\ \A i \in 1 .. m - 1 : R[i] = positions[i]
  <2>1. positions \in Seq(0 .. Len(Query)) /\ positions # <<>>
    BY StacksType DEF TypeOK
  <2>2. Len(Pop(positions)) = m - 1 /\ \A i \in 1 .. m - 1 : Pop(positions)[i] = positions[i]
    BY <2>1, PopProperties
  <2>3. QED
    BY <2>2
<1>5. PICK new : new = [i \in 1 .. k |-> level[i]]
  OBVIOUS
<1>6. Following(level, n, tree, paths, positions)
  BY DEF Follows
<1>7. k = 0 => positions[1] = 0
  <2> SUFFICES ASSUME k = 0 PROVE positions[1] = 0
    OBVIOUS
  <2>1. n = 1 /\ 1 \in 1 .. n /\ level[1] = 1 /\ ~HasKey(paths[1])
    BY <1>1, <1>2
  <2>2. paths[1] \in Seq(Steps) /\ "#" \in Steps /\ "#" \notin Keys
    BY <2>1, PathsType, QJsonAssumption DEF Steps
  <2>3. Tracks(IF tree[1] = "object" THEN paths[1] ELSE Append(paths[1], "#"), positions[1])
    BY <1>6, <2>1 DEF Following
  <2>4. Tracks(paths[1], 0) /\ Tracks(Append(paths[1], "#"), 0)
    <3>1. Append(paths[1], "#") \in Seq(Steps) /\ ~HasKey(Append(paths[1], "#"))
      BY <2>1, <2>2, PushProperties, HasKeyAppend
    <3>2. QED
      BY <2>1, <2>2, <3>1, NoKeyTracks
  <2>5. QED
    BY <2>3, <2>4, TracksUnique
<1> HIDE DEF n, m, k, T, Q, R
<1>8. /\ \A i \in 1 .. k : i \in 1 .. n /\ new[i] = level[i] /\ level[i] \in Nat /\ level[i] >= 1
                           /\ level[i] <= level[k]
      /\ k # 0 => k \in 1 .. k
  <2>1. \A i \in 1 .. k : i \in 1 .. n /\ i <= k /\ k \in 1 .. n
    BY <1>1
  <2>2. k # 0 => k \in 1 .. k
    BY <1>1
  <2>3. QED
    BY <1>2, <1>3, <1>5, <2>1, <2>2
<1>9. /\ k # 0 => Len(R) = level[k]
      /\ k = 0 => Len(R) = 1 /\ R[1] = 0
      /\ \A i \in 1 .. k : level[i] \in 1 .. Len(R) /\ R[level[i]] = positions[level[i]]
  <2>1. CASE R = positions /\ Len(R) = m /\ (n > 1 => level[n - 1] = level[n])
    <3>1. k # 0 => n > 1 /\ k = n - 1
      BY <1>1
    <3>2. k = 0 => m = 1
      BY <1>1, <1>2, <1>3
    <3>3. \A i \in 1 .. k : level[i] \in 1 .. m
      BY <1>2, <1>8
    <3>4. QED
      BY <1>3, <1>7, <2>1, <3>1, <3>2, <3>3
  <2>2. CASE /\ Len(R) = m - 1 /\ n > 1 /\ level[n - 1] = level[n] - 1
             /\ \A i \in 1 .. m - 1 : R[i] = positions[i]
    <3>1. k # 0 /\ level[k] = m - 1
      BY <1>1, <1>3, <2>2
    <3>2. \A i \in 1 .. k : level[i] \in 1 .. m - 1
      BY <1>3, <1>8, <3>1
    <3>3. QED
      BY <2>2, <3>1, <3>2
  <2>3. QED
    BY <1>4, <2>1, <2>2
<1>10. new \in [1 .. k -> 1 .. Len(R)]
  BY <1>5, <1>9
<1>11. Climbing(new, k, Len(R), T, Q)
  <2>1. k # 0 => new[1] = 1
    <3>1. k # 0 => 1 \in 1 .. k
      BY <1>1
    <3>2. QED
      BY <1>1, <1>2, <1>8, <3>1
  <2>2. \A i \in 1 .. k - 1 : i \in 1 .. k /\ i + 1 \in 1 .. k /\ i \in 1 .. n - 1
    BY <1>1
  <2>3. \A i \in 1 .. k - 1 : new[i + 1] = IF T[i] = "object" THEN new[i] + 1 ELSE new[i]
    BY <1>1, <1>2, <1>8, <2>2
  <2>4. \A i, j \in 1 .. k : i <= j => new[i] <= new[j]
    BY <1>2, <1>8
  <2>5. \A i \in 1 .. k : HasKey(Q[i]) <=> new[i] > 1
    BY <1>1, <1>2, <1>8
  <2>6. \A i \in 1 .. k - 1 : T[i + 1] = "array" /\ new[i + 1] > 1 => T[i] = "object"
    BY <1>1, <1>2, <1>8, <2>2
  <2>7. QED
    BY <1>10, <2>1, <2>3, <2>4, <2>5, <2>6, Zenon DEF Climbing
<1>12. Following(new, k, T, Q, R)
  <2> SUFFICES ASSUME NEW i \in 1 .. k
               PROVE  Tracks(IF T[i] = "object" THEN Q[i] ELSE Append(Q[i], "#"), R[new[i]])
    BY Zenon DEF Following
  <2>1. Tracks(IF tree[i] = "object" THEN paths[i] ELSE Append(paths[i], "#"), positions[level[i]])
    BY <1>6, <1>8, Zenon DEF Following
  <2>2. QED
    BY <1>1, <1>8, <1>9, <2>1
<1>13. Climbs(new)'
  BY <1>11 DEF Climbs, k, T, Q, R
<1>14. Follows(new)'
  <2>1. k # 0 => new[k] = level[k]
    BY <1>8
  <2>2. QED
    BY <1>1, <1>9, <1>12, <2>1, Zenon DEF Follows, k, T, Q, R
<1>15. QED
  BY <1>13, <1>14

--------------------------------------------------------------------------------
\* The steps of the function, on an input that is still regular after them.

\* There are keys on the way here as there are positions after the first.
LEMMA KeysEmpty ==
  ASSUME TypeOK
  PROVE  keys = <<>> <=> Len(positions) = 1
<1>1. Len(keys) \in Nat /\ Len(positions) = Len(keys) + 1 /\ (keys = <<>> <=> Len(keys) = 0)
  BY LenProperties, EmptySeq DEF TypeOK
<1>2. QED
  BY <1>1

\* An object takes the last position: its path has no step of its own.
LEMMA OpenObjectStep ==
  ASSUME TypeOK, NEW level, Climbs(level), Follows(level), OpenObject
  PROVE  \E new : Climbs(new)' /\ Follows(new)'
<1>1. /\ ValueAllowed /\ tree' = Append(tree, "object") /\ paths' = Append(paths, ValuePath)
      /\ member' = None /\ positions' = positions
  BY DEF OpenObject
<1>2. Tracks(ValuePath, positions'[Len(positions)])
  BY <1>1, HereTracks DEF Current, Top
<1>3. PICK open : open = "object"
  OBVIOUS
<1>4. open \in {"object", "array"} /\ open # "array"
  BY <1>3
<1>5. QED
  BY <1>1, <1>2, <1>3, <1>4, OpenLevels

\* An array moves the last position by #, the step of its elements.
LEMMA OpenArrayStep ==
  ASSUME TypeOK, NEW level, Climbs(level), Follows(level), OpenArray, ~irregular'
  PROVE  ~AtEnd /\ \E new : Climbs(new)' /\ Follows(new)'
<1>1. /\ ValueAllowed /\ tree' = Append(tree, "array") /\ paths' = Append(paths, ValuePath)
      /\ member' = None /\ ~Nested /\ ~Unforeseen(ValuePath, "#")
  BY DEF OpenArray
<1>2. "#" \in Steps /\ "#" \notin Keys /\ Query[1] # "#"
  BY QJsonAssumption DEF Steps
<1>3. ValuePath \in Seq(Steps) /\ Tracks(ValuePath, Current)
  BY <1>1, ValuePathType, HereTracks
<1>4. ~AtEnd /\ Tracks(Append(ValuePath, "#"), NextPosition("#"))
  <2>1. Current # Len(Query)
        /\ Tracks(Append(ValuePath, "#"), IF Query[Current + 1] = "#" THEN Current + 1 ELSE 0)
    BY <1>1, <1>2, <1>3, StepTracks
  <2>2. QED
    BY <2>1, Zenon DEF AtEnd, NextPosition
<1>5. positions' = [positions EXCEPT ![Len(positions)] = NextPosition("#")]
  BY <1>4 DEF OpenArray
<1>6. positions \in Seq(0 .. Len(Query)) /\ Len(positions) \in Nat \ {0}
      /\ NextPosition("#") \in 0 .. Len(Query)
  BY <1>4, StacksType, NextPositionType DEF TypeOK
<1>7. /\ Len(positions') = Len(positions)
      /\ positions'[Len(positions)] = NextPosition("#")
      /\ \A i \in 1 .. Len(positions) : i # Len(positions) => positions'[i] = positions[i]
  BY <1>5, <1>6, LenProperties
<1>8. InArray => Len(positions) = 1
  <2> SUFFICES ASSUME InArray PROVE Len(positions) = 1
    OBVIOUS
  <2>1. ~HasKey(ValuePath)
    <3>1. ValuePath = Append(Top(paths), "#") /\ Top(paths) \in Seq(Steps)
      BY <1>1, ValuePathType, StacksType DEF InArray
    <3>2. ~HasKey(Top(paths))
      BY <1>1, <3>1, LenProperties DEF Nested, HasKey
    <3>3. QED
      BY <1>2, <3>1, <3>2, HasKeyAppend
  <2>2. ~(Len(positions) > 1)
    BY <1>1, <2>1, OpenedLevel
  <2>3. Len(positions) \in Nat \ {0}
    BY <1>6
  <2>4. QED
    BY <2>2, <2>3, OneOrMore, Zenon
<1>9. \A i \in 1 .. Len(tree) : positions'[level[i]] = positions[level[i]]
  <2> TAKE i \in 1 .. Len(tree)
  <2>1. level[i] \in 1 .. Len(positions) /\ Len(tree) \in 1 .. Len(tree) /\ tree # <<>>
        /\ level[i] <= level[Len(tree)] /\ level[Len(tree)] \in 1 .. Len(positions)
    <3>1. Len(tree) \in Nat /\ (tree # <<>> <=> Len(tree) # 0)
      BY StacksType
    <3>2. Len(tree) \in 1 .. Len(tree) /\ tree # <<>> /\ i <= Len(tree)
      BY <3>1
    <3>3. QED
      BY <3>2 DEF Climbs, Climbing
  <2>2. CASE InArray
    <3>1. NextPosition("#") = positions[1]
      <4>1. Len(positions) = 1 /\ Current = positions[1]
        BY <1>8, <2>2 DEF Current, Top
      <4>2. Current = 0
        <5>1. ~HasKey(ValuePath)
          BY <1>1, <4>1, OpenedLevel
        <5>2. QED
          BY <1>3, <5>1, NoKeyTracks, TracksUnique
      <4>3. QED
        BY <1>2, <4>1, <4>2 DEF NextPosition
    <3>2. QED
      BY <1>7, <1>8, <2>1, <2>2, <3>1
  <2>3. CASE InObject
    <3>1. Len(positions) = level[Len(tree)] + 1
      BY <1>1, <2>1, <2>3, Innermost, OpenedLevel
    <3>2. level[i] # Len(positions)
      BY <1>6, <2>1, <3>1
    <3>3. QED
      BY <1>7, <2>1, <3>2
  <2>4. QED
    BY <2>1, <2>2, <2>3, StacksType, Zenon DEF InObject, InArray
<1>10. PICK open : open = "array"
  OBVIOUS
<1>11. open \in {"object", "array"} /\ open # "object"
  BY <1>10
<1>12. QED
  BY <1>1, <1>4, <1>7, <1>8, <1>9, <1>10, <1>11, OpenLevels

\* A key pushes the position one step after that of its object.
LEMMA KeyStep ==
  ASSUME TypeOK, NEW level, Climbs(level), Follows(level), NEW k \in Keys, Key(k), ~irregular'
  PROVE  ~AtEnd /\ Climbs(level)' /\ Follows(level)'
<1>1. /\ KeyAllowed /\ InObject /\ member = None /\ member' = k /\ UNCHANGED <<tree, paths>>
      /\ ~Unforeseen(Top(paths), k)
  BY DEF Key, KeyAllowed
<1>2. Top(paths) \in Seq(Steps) /\ Tracks(Top(paths), Current) /\ k \in Steps
  BY <1>1, HereTracks DEF Steps
<1>3. ~AtEnd /\ Tracks(Append(Top(paths), k), NextPosition(k))
  <2>1. Current # Len(Query)
        /\ Tracks(Append(Top(paths), k), IF Query[Current + 1] = k THEN Current + 1 ELSE 0)
    BY <1>1, <1>2, StepTracks
  <2>2. QED
    BY <2>1, Zenon DEF AtEnd, NextPosition
<1>4. positions' = Append(positions, NextPosition(k))
  BY <1>3 DEF Key
<1>5. /\ Len(positions') = Len(positions) + 1 /\ Top(positions') = NextPosition(k)
      /\ \A i \in 1 .. Len(positions) : positions'[i] = positions[i]
  <2>1. positions \in Seq(0 .. Len(Query)) /\ NextPosition(k) \in 0 .. Len(Query)
    BY <1>3, NextPositionType DEF TypeOK
  <2>2. QED
    BY <1>4, <2>1, PushProperties
<1>6. tree # <<>> /\ Len(positions) = level[Len(tree)] /\ Len(positions) \in Nat
  <2>1. tree # <<>>
    BY <1>1 DEF InObject
  <2>2. QED
    BY <1>1, <2>1, StacksType DEF Follows
<1>7. level \in [1 .. Len(tree) -> 1 .. Len(positions)]
  BY DEF Climbs, Climbing
<1>8. level \in [1 .. Len(tree) -> 1 .. Len(positions')]
  BY <1>5, <1>6, <1>7
<1>9. Climbs(level)'
  BY <1>1, <1>8, Zenon DEF Climbs, Climbing
<1>10. Following(level, Len(tree), tree, paths, positions')
  <2>1. Following(level, Len(tree), tree, paths, positions)
    BY DEF Follows
  <2>2. \A i \in 1 .. Len(tree) : positions'[level[i]] = positions[level[i]]
    BY <1>5, <1>7
  <2>3. QED
    BY <2>1, <2>2 DEF Following
<1>11. k # None /\ Current' = NextPosition(k)
  BY <1>5, QJsonAssumption DEF Current
<1>12. Follows(level)'
  BY <1>1, <1>3, <1>5, <1>6, <1>10, <1>11 DEF Follows
<1>13. QED
  BY <1>3, <1>9, <1>12

\* The value of a key is complete.
LEMMA CompleteStep ==
  ASSUME TypeOK, NEW level, Climbs(level), Follows(level), InObject, member # None, Complete,
         member' = None, UNCHANGED <<tree, paths>>
  PROVE  pc' = pc /\ Climbs(level)' /\ Follows(level)'
<1>1. tree # <<>> /\ Len(tree) \in 1 .. Len(tree)
  BY Innermost
<1>2. Len(positions) = level[Len(tree)] + 1 /\ Len(positions) \in Nat
  BY StacksType DEF Follows
<1>3. /\ level \in [1 .. Len(tree) -> 1 .. Len(positions)]
      /\ \A i, j \in 1 .. Len(tree) : i <= j => level[i] <= level[j]
  BY DEF Climbs, Climbing
<1>4. level[Len(tree)] \in 1 .. Len(positions)
  BY <1>1, <1>3
<1>5. keys # <<>>
  <2>1. Len(positions) # 1
    BY <1>2, <1>4
  <2>2. QED
    BY <2>1, KeysEmpty
<1>6. pc' = pc /\ positions' = Pop(positions)
  BY <1>5 DEF Complete
<1>7. /\ Len(positions') = Len(positions) - 1
      /\ \A i \in 1 .. Len(positions) - 1 : positions'[i] = positions[i]
  <2>1. positions \in Seq(0 .. Len(Query)) /\ positions # <<>>
    BY StacksType DEF TypeOK
  <2>2. QED
    BY <1>6, <2>1, PopProperties
<1>8. Len(positions') = level[Len(tree)]
  BY <1>2, <1>4, <1>7
<1>9. \A i \in 1 .. Len(tree) : level[i] \in 1 .. Len(positions) - 1
  <2> TAKE i \in 1 .. Len(tree)
  <2>1. level[i] \in 1 .. Len(positions) /\ level[i] <= level[Len(tree)]
    BY <1>1, <1>3
  <2>2. QED
    BY <1>2, <1>4, <2>1
<1>10. level \in [1 .. Len(tree) -> 1 .. Len(positions')]
  BY <1>3, <1>7, <1>9
<1>11. Climbs(level)'
  BY <1>10, Zenon DEF Climbs, Climbing
<1>12. Following(level, Len(tree), tree, paths, positions')
  <2>1. Following(level, Len(tree), tree, paths, positions)
    BY DEF Follows
  <2>2. \A i \in 1 .. Len(tree) : positions'[level[i]] = positions[level[i]]
    BY <1>7, <1>9
  <2>3. QED
    BY <2>1, <2>2 DEF Following
<1>13. Follows(level)'
  BY <1>1, <1>8, <1>12, Zenon DEF Follows
<1>14. QED
  BY <1>6, <1>11, <1>13

\* The end of an object completes the value of a key unless it is an element.
LEMMA CloseObjectStep ==
  ASSUME TypeOK, NEW level, Climbs(level), Follows(level), CloseObject
  PROVE  pc' = pc /\ \E new : Climbs(new)' /\ Follows(new)'
<1>1. /\ InObject /\ member = None /\ tree' = Pop(tree) /\ paths' = Pop(paths) /\ member' = None
      /\ tree # <<>> /\ tree[Len(tree)] = "object" /\ Len(tree) \in Nat /\ Len(tree) # 0
  <2>1. InObject /\ member = None /\ tree' = Pop(tree) /\ paths' = Pop(paths) /\ member' = member
    BY DEF CloseObject, KeyAllowed
  <2>2. QED
    BY <2>1, Innermost, StacksType
<1>2. Len(positions) = level[Len(tree)] /\ Len(positions) \in Nat
  BY <1>1, StacksType DEF Follows
<1>3. /\ level[1] = 1
      /\ Len(tree) > 1 => level[Len(tree)] = IF tree[Len(tree) - 1] = "object"
                                             THEN level[Len(tree) - 1] + 1
                                             ELSE level[Len(tree) - 1]
      /\ level \in [1 .. Len(tree) -> 1 .. Len(positions)]
  <2>1. Len(tree) > 1 => Len(tree) - 1 \in 1 .. Len(tree) - 1 /\ Len(tree) - 1 + 1 = Len(tree)
    BY <1>1
  <2>2. QED
    BY <1>1, <2>1 DEF Climbs, Climbing
<1>4. Len(tree) > 1 => level[Len(tree) - 1] \in 1 .. Len(positions)
  <2>1. Len(tree) > 1 => Len(tree) - 1 \in 1 .. Len(tree)
    BY <1>1
  <2>2. QED
    BY <1>3, <2>1
<1>5. CASE ~CompletedByObject
  <2>1. positions' = positions /\ pc' = pc
    BY <1>5 DEF CloseObject
  <2>2. Len(tree) > 1 => level[Len(tree) - 1] = level[Len(tree)]
    <3> SUFFICES ASSUME Len(tree) > 1 PROVE level[Len(tree) - 1] = level[Len(tree)]
      OBVIOUS
    <3>1. CASE tree[Len(tree) - 1] = "array"
      BY <1>3, <3>1
    <3>2. CASE tree[Len(tree) - 1] # "array"
      <4>1. keys = <<>>
        BY <1>5, <3>2 DEF CompletedByObject, ObjectInArray
      <4>2. Len(positions) = 1
        BY <4>1, KeysEmpty
      <4>3. level[Len(tree) - 1] = 1
        BY <1>4, <4>2
      <4>4. QED
        BY <1>2, <4>2, <4>3
    <3>3. QED
      BY <3>1, <3>2
  <2>3. QED
    BY <1>1, <2>1, <2>2, CloseLevels
<1>6. CASE CompletedByObject
  <2>1. keys # <<>> /\ ~ObjectInArray
    BY <1>6 DEF CompletedByObject
  <2>2. positions' = Pop(positions) /\ pc' = pc
    BY <1>6, <2>1 DEF CloseObject, Complete
  <2>3. Len(tree) > 1
    <3>1. Len(positions) # 1
      BY <2>1, KeysEmpty
    <3>2. Len(tree) # 1
      BY <1>2, <1>3, <3>1
    <3>3. QED
      BY <1>1, <3>2, OneOrMore, Zenon
  <2>4. tree[Len(tree) - 1] = "object"
    <3>1. tree[Len(tree) - 1] # "array"
      BY <2>1, <2>3 DEF ObjectInArray
    <3>2. Len(tree) - 1 \in 1 .. Len(tree)
      BY <1>1, <2>3
    <3>3. QED
      BY <3>1, <3>2, PathsType
  <2>5. level[Len(tree) - 1] = level[Len(tree)] - 1
    BY <1>3, <1>4, <2>3, <2>4
  <2>6. QED
    BY <1>1, <2>2, <2>3, <2>5, CloseLevels
<1>7. QED
  BY <1>5, <1>6

\* The end of an array completes the value of the key it is of, if any.
LEMMA CloseArrayStep ==
  ASSUME TypeOK, NEW level, Climbs(level), Follows(level), CloseArray
  PROVE  pc' = pc /\ \E new : Climbs(new)' /\ Follows(new)'
<1>1. /\ tree' = Pop(tree) /\ paths' = Pop(paths) /\ member' = None /\ member = None
      /\ tree # <<>> /\ tree[Len(tree)] = "array" /\ Len(tree) \in Nat /\ Len(tree) # 0
  <2>1. InArray /\ tree' = Pop(tree) /\ paths' = Pop(paths) /\ member' = member
    BY DEF CloseArray
  <2>2. tree # <<>> /\ tree[Len(tree)] = "array" /\ Len(tree) \in Nat /\ Len(tree) # 0
    BY <2>1, Innermost, StacksType
  <2>3. member = None
    BY <2>1, Innermost, StacksType
  <2>4. QED
    BY <2>1, <2>2, <2>3
<1>2. Len(positions) = level[Len(tree)] /\ Len(positions) \in Nat
  BY <1>1, StacksType DEF Follows
<1>3. /\ level[1] = 1
      /\ Len(tree) > 1 => level[Len(tree)] = IF tree[Len(tree) - 1] = "object"
                                             THEN level[Len(tree) - 1] + 1
                                             ELSE level[Len(tree) - 1]
      /\ Len(tree) > 1 /\ level[Len(tree)] > 1 => tree[Len(tree) - 1] = "object"
      /\ level \in [1 .. Len(tree) -> 1 .. Len(positions)]
  <2>1. Len(tree) > 1 => Len(tree) - 1 \in 1 .. Len(tree) - 1 /\ Len(tree) - 1 + 1 = Len(tree)
    BY <1>1
  <2>2. QED
    BY <1>1, <2>1 DEF Climbs, Climbing
<1>4. Len(tree) > 1 => level[Len(tree) - 1] \in 1 .. Len(positions)
  <2>1. Len(tree) > 1 => Len(tree) - 1 \in 1 .. Len(tree)
    BY <1>1
  <2>2. QED
    BY <1>3, <2>1
<1>5. CASE keys = <<>>
  <2>1. positions' = positions /\ pc' = pc
    BY <1>5 DEF CloseArray
  <2>2. Len(positions) = 1
    BY <1>5, KeysEmpty
  <2>3. Len(tree) > 1 => level[Len(tree) - 1] = level[Len(tree)]
    <3>1. Len(tree) > 1 => level[Len(tree) - 1] = 1
      BY <1>4, <2>2
    <3>2. QED
      BY <1>2, <2>2, <3>1
  <2>4. QED
    BY <1>1, <2>1, <2>3, CloseLevels
<1>6. CASE keys # <<>>
  <2>1. positions' = Pop(positions) /\ pc' = pc
    BY <1>6 DEF CloseArray, Complete
  <2>2. Len(positions) # 1
    BY <1>6, KeysEmpty
  <2>3. Len(positions) > 1
    <3>1. Len(positions) \in Nat \ {0}
      BY StacksType
    <3>2. QED
      BY <2>2, <3>1, OneOrMore, Zenon
  <2>4. Len(tree) > 1
    <3>1. Len(tree) # 1
      BY <1>2, <1>3, <2>2
    <3>2. QED
      BY <1>1, <3>1, OneOrMore, Zenon
  <2>5. level[Len(tree) - 1] = level[Len(tree)] - 1
    BY <1>2, <1>3, <1>4, <2>3, <2>4
  <2>6. QED
    BY <1>1, <2>1, <2>4, <2>5, CloseLevels
<1>7. QED
  BY <1>5, <1>6

\* A string is collected if its path ends with the query.
LEMMA EndsWithQuery ==
  ASSUME NEW path \in Seq(Steps), NEW n, Tracks(path, n)
  PROVE  EndsWith(path, Query) <=> n = Len(Query)
<1>1. Len(Query) \in 0 .. Len(Query) /\ Len(Query) \in 1 .. Len(Query)
  BY QueryType
<1>2. EndsWith(path, Query) <=> Matches(path, Len(Query))
  BY <1>1, MatchesMeans DEF EndsWith
<1>3. QED
  BY <1>1, <1>2 DEF Tracks

\* A string or scalar completes the value of its key.
LEMMA ValueStep ==
  ASSUME TypeOK, NEW level, Climbs(level), Follows(level), ~irregular', StringValue \/ Scalar
  PROVE  pc' = pc /\ Climbs(level)' /\ Follows(level)'
<1>1. ValueAllowed /\ member' = None /\ UNCHANGED <<tree, paths>>
  BY DEF StringValue, Scalar
<1>2. CASE InObject
  <2>1. member # None /\ Complete
    BY <1>1, <1>2 DEF ValueAllowed, StringValue, Scalar
  <2>2. QED
    BY <1>1, <1>2, <2>1, CompleteStep
<1>3. CASE ~InObject
  <2>1. UNCHANGED <<pc, positions>>
    BY <1>3 DEF StringValue, Scalar
  <2>2. member = None
    BY <1>3, Innermost
  <2>3. Climbs(level)'
    BY <1>1, <2>1 DEF Climbs
  <2>4. Follows(level)'
    BY <1>1, <2>1, <2>2 DEF Follows
  <2>5. QED
    BY <2>1, <2>3, <2>4
<1>4. QED
  BY <1>2, <1>3

\* A string is collected exactly if its path ends with the query.
LEMMA CollectStep ==
  ASSUME TypeOK, NEW level, Climbs(level), Follows(level), results = expected, StringValue
  PROVE  results' = expected'
<1>1. /\ ValueAllowed
      /\ results' = IF tree # <<>> /\ AtEnd THEN Append(results, read') ELSE results
      /\ expected' = IF EndsWith(ValuePath, Query) THEN Append(expected, read') ELSE expected
  BY DEF StringValue
<1>2. EndsWith(ValuePath, Query) <=> AtEnd
  BY <1>1, ValuePathType, HereTracks, EndsWithQuery DEF AtEnd
<1>3. tree = <<>> => ~AtEnd
  <2>1. tree = <<>> => ValuePath = <<>>
    BY <1>1, ValuePathType
  <2>2. ~EndsWith(<<>>, Query)
    BY EmptySeq, QueryType DEF EndsWith
  <2>3. QED
    BY <1>2, <2>1, <2>2
<1>4. QED
  BY <1>1, <1>2, <1>3

\* Every step keeps the invariant.
LEMMA RegularStep ==
  ASSUME TypeOK, RegularInv, [Next]_vars
  PROVE  RegularInv'
<1> SUFFICES ASSUME ~irregular'
             PROVE  /\ (\E level : Climbs(level) /\ Follows(level))'
                    /\ results' = expected'
                    /\ pc' # "panic"
  BY DEF RegularInv
<1>1. CASE EndOfInput \/ Malformed \/ Finished \/ UNCHANGED vars
  BY <1>1 DEF RegularInv, EndOfInput, Malformed, Finished, vars, parser, input, Climbs, Follows,
              Current
<1>2. CASE ~(EndOfInput \/ Malformed \/ Finished \/ UNCHANGED vars)
  <2>1. \/ OpenObject \/ CloseObject \/ OpenArray \/ CloseArray
        \/ \E k \in Keys : Key(k)
        \/ StringValue \/ Scalar
    BY <1>2 DEF Next
  <2>2. ~irregular
    BY <2>1 DEF OpenObject, CloseObject, OpenArray, CloseArray, Key, StringValue, Scalar
  <2>3. PICK level : Climbs(level) /\ Follows(level)
    BY <2>2 DEF RegularInv
  <2>4. results = expected /\ pc = "running"
    BY <2>1, <2>2 DEF RegularInv, OpenObject, CloseObject, OpenArray, CloseArray, Key,
                      StringValue, Scalar, Token
  <2>5. CASE OpenObject
    BY <2>3, <2>4, <2>5, OpenObjectStep DEF OpenObject
  <2>6. CASE CloseObject
    BY <2>3, <2>4, <2>6, CloseObjectStep DEF CloseObject
  <2>7. CASE OpenArray
    BY <2>3, <2>4, <2>7, OpenArrayStep DEF OpenArray
  <2>8. CASE CloseArray
    BY <2>3, <2>4, <2>8, CloseArrayStep DEF CloseArray
  <2>9. ASSUME NEW k \in Keys, Key(k)
        PROVE  /\ (\E new : Climbs(new) /\ Follows(new))'
               /\ results' = expected'
               /\ pc' # "panic"
    BY <2>3, <2>4, <2>9, KeyStep DEF Key
  <2>10. CASE StringValue
    BY <2>3, <2>4, <2>10, ValueStep, CollectStep
  <2>11. CASE Scalar
    BY <2>3, <2>4, <2>11, ValueStep DEF Scalar
  <2>12. QED
    BY <2>1, <2>5, <2>6, <2>7, <2>8, <2>9, <2>10, <2>11
<1>3. QED
  BY <1>1, <1>2

\* It holds before the first token.
LEMMA InitRegular == Init => RegularInv
<1> SUFFICES ASSUME Init
             PROVE  /\ \E level : Climbs(level) /\ Follows(level)
                    /\ results = expected
                    /\ pc # "panic"
  BY DEF RegularInv
<1>1. /\ tree = <<>> /\ paths = <<>> /\ positions = <<0>> /\ member = None
      /\ results = expected /\ pc # "panic"
  BY DEF Init
<1>2. Len(tree) = 0 /\ Len(positions) = 1 /\ positions[1] = 0
  BY <1>1
<1>3. PICK level : level = [i \in 1 .. 0 |-> 1]
  OBVIOUS
<1>4. Climbing(level, 0, 1, tree, paths) /\ Following(level, 0, tree, paths, positions)
  BY <1>3 DEF Climbing, Following
<1>5. Climbs(level) /\ Follows(level)
  BY <1>1, <1>2, <1>4, Zenon DEF Climbs, Follows
<1>6. QED
  BY <1>1, <1>5

\* Whatever the document, as far as it is one the function is made for: the stack
\* of positions is where the paths to the open objects and arrays are in the query.
THEOREM InvHolds == Spec => []RegularInv
BY InitType, InitRegular, TypeStep, RegularStep, TypeCorrect, PTL DEF Spec

\* Every string at the end of a path the query is a suffix of is collected, and no
\* other, in their order, as far as the input is one the function is made for:
\* CollectStrings sees only its stack of positions, not the path.
THEOREM CollectsExactlyMatches == Spec => []CollectsMatches
<1>1. RegularInv => CollectsMatches
  BY DEF RegularInv, CollectsMatches
<1>2. QED
  BY <1>1, InvHolds, PTL

\* On such an input no step looks for a key on an empty stack or beyond the end
\* of the query, and a document leaves the stacks as it found them.
THEOREM NeverPanics == Spec => []NoPanic
<1>1. TypeOK /\ RegularInv => NoPanic
  <2> SUFFICES ASSUME TypeOK, RegularInv, ~irregular
               PROVE  pc # "panic" /\ (tree = <<>> => positions = <<0>> /\ keys = <<>>)
    BY DEF NoPanic
  <2>1. pc # "panic" /\ (tree = <<>> => Len(positions) = 1 /\ positions[1] = 0)
    BY DEF RegularInv, Follows
  <2>2. tree = <<>> => keys = <<>>
    BY <2>1, KeysEmpty
  <2>3. tree = <<>> => positions = <<0>>
    BY <2>1 DEF TypeOK
  <2>4. QED
    BY <2>1, <2>2, <2>3
<1>2. QED
  BY <1>1, InvHolds, TypeCorrect, PTL
================================================================================
