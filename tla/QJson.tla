--------------------------------- MODULE QJson ---------------------------------
(***************************************************************************)
(* CollectStrings (pkg/qjson/query.go), which finds the container images   *)
(* in the manifests of an addon: one pass over the tokens of JSON          *)
(* documents that collects the strings at the end of every path of which   *)
(* the query is a suffix, such as spec.containers.#.image, where # stands  *)
(* for the elements of an array.                                           *)
(*                                                                         *)
(* The documents are arbitrary: the decoder is a sequence of tokens that   *)
(* the grammar of JSON allows, chosen as they are read.  What the function *)
(* should have collected is recorded beside what it does collect.          *)
(***************************************************************************)
EXTENDS Integers, Sequences

CONSTANTS
  Query,     \* the query, split at its dots
  Keys,      \* the keys of the objects
  MaxTokens, \* bound on the tokens of the input
  MaxDepth,  \* bound on the nesting of its objects and arrays
  None

\* The step a query begins with, a key, does not occur in it again.
ASSUME QJsonAssumption ==
  /\ Query \in Seq(Keys \union {"#"}) /\ Query # <<>>
  /\ Query[1] # "#" /\ \A i \in 2 .. Len(Query) : Query[i] # Query[1]
  /\ "#" \notin Keys
  /\ MaxTokens \in Nat /\ MaxDepth \in Nat
  /\ None \notin Keys

VARIABLES
  pc,        \* "running", "ok", "error" or "panic"
  read,      \* how many tokens have been read
  positions, \* where we are in the query, for each key on the way here
  tree,      \* the objects and arrays we are in
  keys,      \* the keys on the way here
  key,       \* is the next string of an object a key?
  results,   \* the strings collected, each named by the number of its token
  paths,     \* the path to each object and array we are in
  member,    \* the key of which the value is to come, or None
  expected,  \* the strings at the end of a path the query is a suffix of
  irregular  \* has the input had a token the function is not made for?

parser == <<positions, tree, keys, key, results>>
input == <<read, paths, member, expected, irregular>>
vars == <<pc, parser, input>>

--------------------------------------------------------------------------------
\* The input.

Top(s) == s[Len(s)]
Pop(s) == SubSeq(s, 1, Len(s) - 1)
EndsWith(s, t) ==
  /\ Len(t) <= Len(s)
  /\ \A i \in 1 .. Len(t) : s[Len(s) - Len(t) + i] = t[i]

InObject == tree # <<>> /\ Top(tree) = "object"
InArray == tree # <<>> /\ Top(tree) = "array"

\* The path to the value that comes next.
ValuePath ==
  CASE tree = <<>> -> <<>>
    [] InObject -> Append(Top(paths), member)
    [] InArray -> Append(Top(paths), "#")

\* Steps on a path the function is not made for: one that follows a match, and
\* one that ends a partial match by beginning another.
Matches(path, n) == EndsWith(path, SubSeq(Query, 1, n))
Unforeseen(path, step) ==
  \E n \in DOMAIN Query :
    Matches(path, n) /\ (n = Len(Query) \/ step = Query[1])

\* An array as an element of one that is the value of a key.
Nested == InArray /\ \E i \in DOMAIN Top(paths) : Top(paths)[i] \in Keys

ValueAllowed == InObject => member # None
KeyAllowed == InObject /\ member = None

\* One more token.
Token ==
  /\ pc = "running" /\ read < MaxTokens
  /\ read' = read + 1

--------------------------------------------------------------------------------
\* The query.

\* Where we are in the query, from 0, and after one more step.  A step the
\* query does not ask for here leads back to its beginning.
Current == Top(positions)
AtEnd == Current = Len(Query)
NextPositionKept(step) == IF Query[Current + 1] = step THEN Current + 1 ELSE Current
NextPosition(step) == IF Query[Current + 1] = step THEN Current + 1 ELSE 0

CompleteKeepingPosition ==
  IF keys = <<>>
  THEN pc' = "panic" /\ UNCHANGED <<positions, keys>>
  ELSE pc' = pc /\ keys' = Pop(keys) /\ UNCHANGED positions

\* The value of a key is complete: its position and itself are removed.  The
\* code does not look whether there is a key.
Complete ==
  IF keys = <<>>
  THEN pc' = "panic" /\ UNCHANGED <<positions, keys>>
  ELSE pc' = pc /\ positions' = Pop(positions) /\ keys' = Pop(keys)

\* An object that is the value of a key is followed by the next key.
ObjectInArray == Len(tree) > 1 /\ tree[Len(tree) - 1] = "array"
CompletedByElement == keys # <<>> /\ ObjectInArray
CompletedByObject == keys # <<>> /\ ~ObjectInArray

--------------------------------------------------------------------------------
Init ==
  /\ pc = "running"
  /\ read = 0
  /\ positions = <<0>> /\ tree = <<>> /\ keys = <<>>
  /\ key = FALSE
  /\ results = <<>>
  /\ paths = <<>> /\ member = None
  /\ expected = <<>>
  /\ irregular = FALSE

OpenObject ==
  /\ Token
  /\ ValueAllowed /\ Len(tree) < MaxDepth
  /\ tree' = Append(tree, "object")
  /\ key' = TRUE
  /\ paths' = Append(paths, ValuePath) /\ member' = None
  /\ UNCHANGED <<pc, positions, keys, results, expected, irregular>>

CloseObject ==
  /\ Token
  /\ KeyAllowed
  /\ IF CompletedByObject THEN Complete ELSE UNCHANGED <<pc, positions, keys>>
  /\ tree' = Pop(tree)
  /\ key' = TRUE
  /\ paths' = Pop(paths)
  /\ UNCHANGED <<results, member, expected, irregular>>

OpenArray ==
  /\ Token
  /\ ValueAllowed /\ Len(tree) < MaxDepth
  /\ tree' = Append(tree, "array")
  /\ key' = FALSE
  /\ IF AtEnd
     THEN pc' = "panic" /\ UNCHANGED positions
     ELSE /\ positions' = [positions EXCEPT ![Len(positions)] = NextPosition("#")]
          /\ pc' = pc
  /\ paths' = Append(paths, ValuePath) /\ member' = None
  /\ irregular' = (irregular \/ Nested \/ Unforeseen(ValuePath, "#"))
  /\ UNCHANGED <<keys, results, expected>>

CloseArray ==
  /\ Token
  /\ InArray
  /\ IF keys # <<>> THEN Complete ELSE UNCHANGED <<pc, positions, keys>>
  /\ tree' = Pop(tree)
  /\ key' = TRUE
  /\ paths' = Pop(paths)
  /\ UNCHANGED <<results, member, expected, irregular>>

\* A string is read as a key.
Key(k) ==
  /\ Token
  /\ KeyAllowed
  /\ InObject /\ key
  /\ IF AtEnd
     THEN pc' = "panic" /\ UNCHANGED <<positions, keys>>
     ELSE /\ positions' = Append(positions, NextPosition(k))
          /\ keys' = Append(keys, k)
          /\ pc' = pc
  /\ key' = FALSE
  /\ member' = k
  /\ irregular' = (irregular \/ Unforeseen(Top(paths), k))
  /\ UNCHANGED <<tree, results, paths, expected>>

\* A string is read as a value.
StringValue ==
  /\ Token
  /\ ValueAllowed
  /\ InObject => ~key
  /\ results' = IF tree # <<>> /\ AtEnd THEN Append(results, read') ELSE results
  /\ IF InObject
     THEN Complete /\ key' = TRUE
     ELSE UNCHANGED <<pc, positions, keys, key>>
  /\ expected' = IF EndsWith(ValuePath, Query) THEN Append(expected, read') ELSE expected
  /\ member' = None
  /\ UNCHANGED <<tree, paths, irregular>>

\* A number, a Boolean or null, which is taken for the value of a key.
Scalar ==
  /\ Token
  /\ ValueAllowed
  /\ Complete
  /\ key' = InObject
  /\ member' = None
  /\ irregular' = (irregular \/ ~InObject)
  /\ UNCHANGED <<tree, results, paths, expected>>

\* The input ends between two documents.
EndOfInput ==
  /\ pc = "running" /\ tree = <<>>
  /\ pc' = "ok"
  /\ UNCHANGED <<parser, input>>

\* Or it is not JSON, or ends within a document.
Malformed ==
  /\ pc = "running"
  /\ pc' = "error"
  /\ UNCHANGED <<parser, input>>

Finished ==
  /\ pc # "running"
  /\ UNCHANGED vars

Next ==
  \/ OpenObject \/ CloseObject
  \/ OpenArray \/ CloseArray
  \/ \E k \in Keys : Key(k)
  \/ StringValue \/ Scalar
  \/ EndOfInput \/ Malformed
  \/ Finished

Spec == Init /\ [][Next]_vars

--------------------------------------------------------------------------------
\* Properties.

\* Every variable has its type, the stacks have the sizes that belong together
\* and the function knows a key from a value.
TypeOK ==
  /\ pc \in {"running", "ok", "error", "panic"}
  /\ read \in 0 .. MaxTokens
  /\ positions \in Seq(0 .. Len(Query)) /\ keys \in Seq(Keys)
  /\ Len(positions) = Len(keys) + 1
  /\ tree \in Seq({"object", "array"}) /\ Len(tree) <= MaxDepth
  /\ paths \in Seq(Seq(Keys \union {"#"})) /\ Len(paths) = Len(tree)
  /\ key \in BOOLEAN /\ irregular \in BOOLEAN
  /\ member \in Keys \union {None} /\ (member # None => InObject)
  /\ InObject => key = (member = None)
  /\ results \in Seq(1 .. read) /\ expected \in Seq(1 .. read)

\* Exactly the strings at the end of a path the query is a suffix of are
\* collected, in their order, on every input without scalars or arrays as
\* elements of an array that is the value of a key, without an array or a
\* member where the query ends, and without a key the query begins with in the
\* middle of a match.
CollectsMatches == ~irregular => results = expected

\* On such an input the function does not panic, and one document does not
\* leave anything behind for the next.
NoPanic ==
  ~irregular =>
    /\ pc # "panic"
    /\ tree = <<>> => positions = <<0>> /\ keys = <<>>
================================================================================
