-------------------------- MODULE InitManifests_proofs --------------------------
(***************************************************************************)
(* What wksctl init promises, for every tree of files, every set of flags  *)
(* and manifests and any number of runs and faults; and that the test of   *)
(* two networks in specs/validation.go, which looks at their first         *)
(* addresses only, is exact for all networks that pass isValidCIDR.        *)
(***************************************************************************)
EXTENDS InitManifests, SequenceTheorems, TLAPS

--------------------------------------------------------------------------------
\* Networks.

\* Clearing the bits below the size leaves a multiple of it, the one below.
LEMMA MaskedBounds ==
  ASSUME NEW ip \in Nat, NEW size \in Nat \ {0}
  PROVE  /\ Masked(ip, size) \in Nat
         /\ Masked(ip, size) <= ip /\ ip < Masked(ip, size) + size
         /\ \E k \in Nat : Masked(ip, size) = k * size
<1>1. /\ ip = size * (ip \div size) + (ip % size)
      /\ ip \div size \in Nat
      /\ ip % size \in 0 .. size - 1
  OBVIOUS
<1> DEFINE k == ip \div size
<1> HIDE DEF k
<1>2. k \in Nat /\ Masked(ip, size) = k * size
  BY <1>1 DEF k, Masked
<1>3. k * size \in Nat
  BY <1>2
<1>4. Masked(ip, size) <= ip /\ ip < Masked(ip, size) + size
  BY <1>1 DEF Masked
<1> QED
  BY <1>2, <1>3, <1>4

\* Multiples of a size that are less than it apart are equal.
LEMMA Multiples ==
  ASSUME NEW j \in Nat, NEW k \in Nat, NEW size \in Nat \ {0},
         j * size < k * size + size
  PROVE  j * size <= k * size
<1>1. j < k + 1
  <2>1. CASE j >= k + 1
    <3>1. PICK d \in Nat : j = (k + 1) + d
      BY <2>1
    <3>2. j * size = k * size + size + d * size
      BY <3>1
    <3>3. d * size \in Nat /\ k * size \in Nat
      OBVIOUS
    <3> QED
      BY <3>2, <3>3
  <2> QED
    BY <2>1
<1>2. PICK d \in Nat : k = j + d
  BY <1>1
<1>3. k * size = j * size + d * size /\ d * size \in Nat /\ j * size \in Nat
  BY <1>2
<1> QED
  BY <1>3

\* Of two sizes the smaller divides the larger.
LEMMA SizesDivide ==
  ASSUME NEW s \in Sizes, NEW t \in Sizes, s <= t
  PROVE  \E d \in Nat : t = d * s
<1>1. PICK d \in 1 .. t : t = d * s
  BY SizesAssumption
<1>2. d \in Nat
  BY SizesAssumption
<1> QED
  BY <1>1, <1>2

\* The first address of a network is a multiple of its size.
LEMMA NetworkAligned ==
  ASSUME NEW n \in Blocks, IsValidCIDR(n)
  PROVE  /\ n.ip \in Nat /\ n.size \in Nat \ {0} /\ n.size \in Sizes
         /\ \E k \in Nat : n.ip = k * n.size
<1>1. /\ n.ip \in Nat /\ n.size \in Nat \ {0} /\ n.size \in Sizes
      /\ Masked(n.ip, n.size) = n.ip
  BY SizesAssumption DEF Blocks, IsValidCIDR, Network
<1>2. \E k \in Nat : Masked(n.ip, n.size) = k * n.size
  BY <1>1, MaskedBounds
<1> QED
  BY <1>1, <1>2

\* A network contains the addresses of an interval.
LEMMA ContainsExact ==
  ASSUME NEW n \in Blocks, IsValidCIDR(n), NEW family, NEW ip \in Nat
  PROVE  Contains(n, family, ip) <=>
           n.family = family /\ n.ip <= ip /\ ip < n.ip + n.size
<1>1. n.ip \in Nat /\ n.size \in Nat \ {0} /\ Masked(n.ip, n.size) = n.ip
  BY SizesAssumption DEF Blocks, IsValidCIDR, Network
<1>2. PICK j \in Nat : n.ip = j * n.size
  BY <1>1, MaskedBounds
<1>3. PICK k \in Nat : Masked(ip, n.size) = k * n.size
  BY <1>1, MaskedBounds
<1>4. Masked(ip, n.size) \in Nat /\ Masked(ip, n.size) <= ip /\ ip < Masked(ip, n.size) + n.size
  BY <1>1, MaskedBounds
<1>5. ASSUME n.ip <= ip, ip < n.ip + n.size
      PROVE  Masked(ip, n.size) = n.ip
  <2>1. n.ip < Masked(ip, n.size) + n.size /\ Masked(ip, n.size) < n.ip + n.size
    BY <1>1, <1>4, <1>5
  <2>2. j * n.size <= k * n.size
    BY <1>1, <1>2, <1>3, <2>1, Multiples
  <2>3. k * n.size <= j * n.size
    BY <1>1, <1>2, <1>3, <2>1, Multiples
  <2> QED
    BY <1>1, <1>2, <1>3, <1>4, <2>2, <2>3
<1> QED
  BY <1>1, <1>4, <1>5 DEF Contains

\* Of two networks with a common address the larger contains the first address
\* of the smaller.
LEMMA LargerContains ==
  ASSUME NEW m \in Blocks, IsValidCIDR(m), NEW n \in Blocks, IsValidCIDR(n),
         n.size <= m.size, m.family = n.family,
         NEW ip \in Nat,
         m.ip <= ip, ip < m.ip + m.size,
         n.ip <= ip, ip < n.ip + n.size
  PROVE  Contains(m, n.family, n.ip)
<1>1. /\ m.ip \in Nat /\ m.size \in Nat \ {0} /\ m.size \in Sizes
      /\ n.ip \in Nat /\ n.size \in Nat \ {0} /\ n.size \in Sizes
  BY NetworkAligned
<1>2. PICK d \in Nat : m.size = d * n.size
  BY <1>1, SizesDivide
<1>3. PICK j \in Nat : m.ip = j * m.size
  BY NetworkAligned
<1>4. PICK k \in Nat : n.ip = k * n.size
  BY NetworkAligned
<1>5. j * d \in Nat /\ m.ip = (j * d) * n.size
  <2>1. \A x, y, z \in Nat : x * (y * z) = (x * y) * z /\ x * y \in Nat
    OBVIOUS
  <2> QED
    BY <1>1, <1>2, <1>3, <2>1
<1>6. m.ip < n.ip + n.size
  BY <1>1
<1>7. m.ip <= n.ip
  BY <1>1, <1>4, <1>5, <1>6, Multiples
<1>8. n.ip < m.ip + m.size
  BY <1>1
<1> QED
  BY <1>1, <1>7, <1>8, ContainsExact

\* networksIntersect finds exactly the networks that have an address in common.
THEOREM NetworksIntersectExact ==
  ASSUME NEW m \in Blocks, IsValidCIDR(m), NEW n \in Blocks, IsValidCIDR(n)
  PROVE  NetworksIntersect(m, n) <=> Addresses(m) \intersect Addresses(n) # {}
<1>1. /\ m.ip \in Nat /\ m.size \in Nat \ {0}
      /\ n.ip \in Nat /\ n.size \in Nat \ {0}
  BY SizesAssumption DEF Blocks
<1>2. ASSUME NetworksIntersect(m, n)
      PROVE  Addresses(m) \intersect Addresses(n) # {}
  <2>1. CASE Contains(n, m.family, m.ip)
    <3>1. n.family = m.family /\ m.ip \in n.ip .. n.ip + n.size - 1
      BY <1>1, <2>1, ContainsExact
    <3>2. m.ip \in m.ip .. m.ip + m.size - 1
      BY <1>1
    <3>3. <<m.family, m.ip>> \in Addresses(m) /\ <<m.family, m.ip>> \in Addresses(n)
      BY <3>1, <3>2 DEF Addresses
    <3> QED
      BY <3>3
  <2>2. CASE Contains(m, n.family, n.ip)
    <3>1. n.family = m.family /\ n.ip \in m.ip .. m.ip + m.size - 1
      BY <1>1, <2>2, ContainsExact
    <3>2. n.ip \in n.ip .. n.ip + n.size - 1
      BY <1>1
    <3>3. <<n.family, n.ip>> \in Addresses(m) /\ <<n.family, n.ip>> \in Addresses(n)
      BY <3>1, <3>2 DEF Addresses
    <3> QED
      BY <3>3
  <2> QED
    BY <1>2, <2>1, <2>2 DEF NetworksIntersect
<1>3. ASSUME Addresses(m) \intersect Addresses(n) # {}
      PROVE  NetworksIntersect(m, n)
  <2>1. PICK a : a \in Addresses(m) /\ a \in Addresses(n)
    BY <1>3
  <2>2. /\ m.family = n.family /\ a[2] \in Nat
        /\ m.ip <= a[2] /\ a[2] < m.ip + m.size
        /\ n.ip <= a[2] /\ a[2] < n.ip + n.size
    BY <1>1, <2>1 DEF Addresses
  <2>3. CASE n.size <= m.size
    BY <2>2, <2>3, LargerContains DEF NetworksIntersect
  <2>4. CASE m.size <= n.size
    BY <2>2, <2>4, LargerContains DEF NetworksIntersect
  <2> QED
    BY <1>1, <2>3, <2>4
<1> QED
  BY <1>2, <1>3

--------------------------------------------------------------------------------
\* The inductive invariant.

\* The file has what this run, or the last, writes into it.
Updated(path) ==
  /\ path \in Flux =>
       \A f \in DOMAIN files[path] \intersect Fields : files[path][f] \in {options[f], Blank}
  /\ path \in WeaveNet =>
       /\ ValidManifests(manifests)
       /\ "ipalloc_range" \in DOMAIN files[path]
       /\ files[path].ipalloc_range = manifests.cluster.pods[1]

\* Every file of the repository that the walk has passed is up to date, and what
\* it skips is no such file.
WalkInv ==
  pc # "idle" =>
    /\ \A i \in 1 .. at - 1 : Own(Entries[i]) => Updated(Entries[i])
    /\ \A dir \in skipped : \A path \in Paths : Under(dir, path) => ~Own(path)

\* What is read of a flux manifest has the types of one; what is about to be
\* written is up to date.
FluxContent(content) ==
  /\ DOMAIN content \subseteq Fields \union Others
  /\ \A f \in DOMAIN content : content[f] \in Values
ContentsInv ==
  /\ pc = "update" /\ Path \in Flux => FluxContent(contents)
  /\ pc \in {"open", "write"} /\ Path \in Flux =>
       /\ FluxContent(contents)
       /\ \A f \in DOMAIN contents \intersect Fields : contents[f] \in {options[f], Blank}
  /\ pc \in {"open", "write"} /\ Path \in WeaveNet =>
       /\ ValidManifests(manifests)
       /\ "ipalloc_range" \in DOMAIN contents
       /\ contents.ipalloc_range = manifests.cluster.pods[1]

EndInv ==
  pc = "idle" /\ outcome = "ok" => \A path \in Paths : Own(path) => Updated(path)

\* The fields that init does not write are those of the repository; and all fields
\* are there, unless a write was cut short.
Kept(content, path) ==
  \A f \in DOMAIN content \ Fields : content[f] = Repository[path][f]
Whole(content, path) == DOMAIN content = DOMAIN Repository[path]

\* A file that is open for writing is empty, and is whole again if nothing cuts the
\* write short.
CutInv ==
  /\ \A path \in Flux :
       /\ Kept(files[path], path)
       /\ path \in cut \/ Whole(files[path], path) \/ (pc = "write" /\ path = Path)
  /\ pc \in {"update", "open", "write"} /\ Path \in Flux =>
       /\ Kept(contents, Path)
       /\ Path \in cut \/ Whole(contents, Path)

InitInv == TypeOK /\ WalkInv /\ ContentsInv /\ EndInv

\* A file is of one kind.
LEMMA Kinds ==
  /\ \A path : path \in Flux <=> path \in Paths /\ Kind(path) = "flux"
  /\ \A path : path \in WeaveNet <=> path \in Paths /\ Kind(path) = "weave-net"
  BY DEF Flux, WeaveNet

\* Before the first run the files are those of the repository.
LEMMA StartInv == Init => InitInv
<1> SUFFICES ASSUME Init PROVE InitInv
  OBVIOUS
<1>1. TypeOK
  <2>1. at \in 1 .. Len(Entries) + 1 /\ runs \in 0 .. MaxRuns /\ faults \in 0 .. MaxFaults
    BY InitManifestsAssumption DEF Init
  <2>2. /\ DOMAIN files = Flux \union WeaveNet
        /\ \A path \in Flux :
             /\ DOMAIN files[path] \subseteq Fields \union Others
             /\ \A f \in DOMAIN files[path] : files[path][f] \in Values
    BY InitManifestsAssumption DEF Init
  <2> QED
    BY <2>1, <2>2 DEF Init, TypeOK
<1>2. WalkInv /\ ContentsInv /\ EndInv
  BY DEF Init, WalkInv, ContentsInv, EndInv
<1> QED
  BY <1>1, <1>2 DEF InitInv

\* A run that ends otherwise than well, without writing.
LEMMA EndingInv ==
  ASSUME InitInv,
         pc' = "idle", outcome' \in {"failed", "missing", "fatal", "killed"}, found' \in BOOLEAN,
         UNCHANGED <<at, skipped, options, files, manifests, runs>>,
         cut' \subseteq Flux \union WeaveNet, faults' \in 0 .. MaxFaults
  PROVE  InitInv'
<1>1. TypeOK'
  BY DEF InitInv, TypeOK, Path
<1>2. WalkInv' /\ ContentsInv' /\ EndInv'
  BY DEF InitInv, WalkInv, ContentsInv, EndInv
<1> QED
  BY <1>1, <1>2 DEF InitInv

\* A fault stays within the bound.
LEMMA FaultInRange ==
  ASSUME TypeOK, Fault
  PROVE  faults' \in 0 .. MaxFaults
  BY InitManifestsAssumption DEF TypeOK, Fault

\* What the owner does between runs makes no claim of a run.
LEMMA OwnerInv ==
  ASSUME InitInv, (\E m \in Manifests : Edit(m)) \/ Checkout
  PROVE  InitInv'
<1>1. TypeOK'
  BY InitManifestsAssumption DEF InitInv, TypeOK, Edit, Checkout, Path
<1>2. WalkInv' /\ ContentsInv' /\ EndInv'
  BY DEF InitInv, WalkInv, ContentsInv, EndInv, Edit, Checkout
<1> QED
  BY <1>1, <1>2 DEF InitInv

\* The steps of the walk that pass an entry, begin or end.
LEMMA WalkingInv ==
  ASSUME InitInv, (\E flags \in Options : Begin(flags)) \/ Pass \/ Skip \/ Finish
  PROVE  InitInv'
<1> USE InitManifestsAssumption
<1>1. ASSUME NEW flags \in Options, Begin(flags)
      PROVE  InitInv'
  <2>1. TypeOK'
    <3>1. at' \in 1 .. Len(Entries) + 1 /\ runs' \in 0 .. MaxRuns
      BY <1>1 DEF InitInv, TypeOK, Begin
    <3> QED
      BY <1>1, <3>1 DEF InitInv, TypeOK, Begin
  <2>2. WalkInv' /\ ContentsInv' /\ EndInv'
    BY <1>1 DEF InitInv, WalkInv, ContentsInv, EndInv, Begin
  <2> QED
    BY <2>1, <2>2 DEF InitInv
<1>2. CASE Pass
  <2>1. Path \in Paths
    BY <1>2 DEF Pass, Visited, More, Path, Paths, InitInv, TypeOK
  <2>2. TypeOK'
    BY <1>2, <2>1 DEF InitInv, TypeOK, Pass, Visited, Path, More, AfterGit
  <2>3. ~(Path \in Flux) /\ ~(Path \in WeaveNet)
    BY <1>2, Kinds DEF Pass
  <2>4. \A i \in 1 .. at' - 1 : Own(Entries[i]) => Updated(Entries[i])'
    BY <1>2, <2>3 DEF InitInv, TypeOK, WalkInv, Pass, Visited, Updated, Path
  <2>5. \A path \in Paths : Kind(Path) = "git" /\ Under(SkipDir(Path), path) => ~Own(path)
    BY <2>1 DEF SkipDir, Own
  <2>6. WalkInv'
    BY <1>2, <2>4, <2>5 DEF InitInv, WalkInv, Pass, Visited, AfterGit
  <2>7. ContentsInv' /\ EndInv'
    BY <1>2 DEF ContentsInv, EndInv, Pass, Visited
  <2> QED
    BY <2>2, <2>6, <2>7 DEF InitInv
<1>3. CASE Skip
  <2>1. Path \in Paths
    BY <1>3 DEF Skip, More, Path, Paths, InitInv, TypeOK
  <2>2. TypeOK'
    BY <1>3 DEF InitInv, TypeOK, Skip, Path, More
  <2>3. ~Own(Path)
    BY <1>3, <2>1 DEF InitInv, WalkInv, Skip, Visited
  <2>4. \A i \in 1 .. at' - 1 : Own(Entries[i]) => Updated(Entries[i])'
    BY <1>3, <2>3 DEF InitInv, TypeOK, WalkInv, Skip, Updated, Path
  <2>5. WalkInv' /\ ContentsInv' /\ EndInv'
    BY <1>3, <2>4 DEF InitInv, WalkInv, ContentsInv, EndInv, Skip
  <2> QED
    BY <2>2, <2>5 DEF InitInv
<1>4. CASE Finish
  <2>1. TypeOK'
    BY <1>4 DEF InitInv, TypeOK, Finish, Ends, Path
  <2>2. WalkInv' /\ ContentsInv'
    BY <1>4 DEF WalkInv, ContentsInv, Finish, Ends
  <2>3. EndInv'
    <3>1. at - 1 = Len(Entries)
      BY <1>4 DEF InitInv, TypeOK, Finish, More
    <3>2. \A path \in Paths : Own(path) => Updated(path)
      BY <1>4, <3>1 DEF InitInv, WalkInv, Finish, Paths
    <3> QED
      BY <1>4, <3>2 DEF EndInv, Finish, Updated
  <2> QED
    BY <2>1, <2>2, <2>3 DEF InitInv
<1> QED
  BY <1>1, <1>2, <1>3, <1>4

\* The steps from reading a file to opening it for the new contents.
LEMMA UpdatingInv ==
  ASSUME InitInv, ReadFile \/ UpdateFlux \/ UpdateWeaveNet \/ OpenFile
  PROVE  InitInv'
<1> USE InitManifestsAssumption
<1>1. CASE ReadFile
  <2>1. Path \in Flux \union WeaveNet
    BY <1>1, Kinds DEF ReadFile, Visited, More, Path, Paths, InitInv, TypeOK
  <2>2. TypeOK'
    BY <1>1, <2>1, Kinds DEF InitInv, TypeOK, ReadFile, Visited, Path, More, Found
  <2>3. WalkInv'
    BY <1>1 DEF InitInv, WalkInv, ReadFile, Visited, Updated
  <2>4. ContentsInv' /\ EndInv'
    BY <1>1 DEF InitInv, TypeOK, ContentsInv, EndInv, FluxContent, ReadFile, Path
  <2> QED
    BY <2>2, <2>3, <2>4 DEF InitInv
<1>2. CASE UpdateFlux
  <2>1. TypeOK'
    BY <1>2 DEF InitInv, TypeOK, UpdateFlux, Path, More
  <2>2. WalkInv'
    BY <1>2 DEF InitInv, WalkInv, UpdateFlux, Updated
  <2>3. Path \in Flux /\ Path \notin WeaveNet
    BY <1>2, Kinds DEF InitInv, TypeOK, UpdateFlux
  <2>4. FluxContent(contents')
    BY <1>2, <2>3 DEF InitInv, TypeOK, ContentsInv, FluxContent, UpdateFlux, FluxUpdated, Matched
  <2>5. ContentsInv' /\ EndInv'
    BY <1>2, <2>3, <2>4 DEF ContentsInv, EndInv, UpdateFlux, FluxUpdated, Matched, Path
  <2> QED
    BY <2>1, <2>2, <2>5 DEF InitInv
<1>3. CASE UpdateWeaveNet
  <2>1. TypeOK'
    BY <1>3 DEF InitInv, TypeOK, UpdateWeaveNet, Path, More
  <2>2. WalkInv'
    BY <1>3 DEF InitInv, WalkInv, UpdateWeaveNet, Updated
  <2>3. Path \notin Flux
    BY <1>3, Kinds DEF UpdateWeaveNet
  <2>4. ContentsInv' /\ EndInv'
    BY <1>3, <2>3 DEF ContentsInv, EndInv, UpdateWeaveNet, WeaveNetUpdated, Path
  <2> QED
    BY <2>1, <2>2, <2>4 DEF InitInv
<1>4. CASE OpenFile
  <2>1. TypeOK'
    BY <1>4 DEF InitInv, TypeOK, OpenFile, Path, More
  <2>2. \A i \in 1 .. at - 1 : Entries[i] # Path
    BY <1>4 DEF InitInv, TypeOK, OpenFile, Path, More
  <2>3. WalkInv'
    BY <1>4, <2>2 DEF InitInv, TypeOK, WalkInv, OpenFile, Updated
  <2>4. ContentsInv' /\ EndInv'
    BY <1>4 DEF InitInv, ContentsInv, EndInv, OpenFile, Path
  <2> QED
    BY <2>1, <2>3, <2>4 DEF InitInv
<1> QED
  BY <1>1, <1>2, <1>3, <1>4

\* The new contents reach the file, or a part of them does.
LEMMA WritingInv ==
  ASSUME InitInv, WriteFile \/ WriteFails
  PROVE  InitInv'
<1> USE InitManifestsAssumption
<1>1. pc = "write" /\ at \in 1 .. Len(Entries) /\ Path \in Flux \union WeaveNet
  BY DEF InitInv, TypeOK, WriteFile, WriteFails, More
<1>2. Path \in Flux => FluxContent(contents)
  BY <1>1 DEF InitInv, ContentsInv
<1>3. CASE WriteFile
  <2>1. TypeOK'
    BY <1>1, <1>2, <1>3 DEF InitInv, TypeOK, FluxContent, WriteFile, Path, More
  <2>2. ASSUME NEW path, path = Path
        PROVE  Updated(path)'
    <3>1. files'[path] = contents
      BY <1>1, <1>3, <2>2 DEF InitInv, TypeOK, WriteFile
    <3>2. /\ path \in Flux =>
               \A f \in DOMAIN contents \intersect Fields : contents[f] \in {options[f], Blank}
          /\ path \in WeaveNet =>
               /\ ValidManifests(manifests)
               /\ "ipalloc_range" \in DOMAIN contents
               /\ contents.ipalloc_range = manifests.cluster.pods[1]
      BY <1>1, <2>2 DEF InitInv, ContentsInv
    <3>3. options' = options /\ manifests' = manifests
      BY <1>3 DEF WriteFile
    <3> QED
      BY <3>1, <3>2, <3>3 DEF Updated
  <2>3. \A i \in 1 .. at - 1 : Entries[i] # Path
    BY <1>1 DEF Path
  <2>4. \A i \in 1 .. at - 1 : Own(Entries[i]) => Updated(Entries[i])'
    BY <1>1, <1>3, <2>3 DEF InitInv, TypeOK, WalkInv, Updated, WriteFile
  <2>5. ASSUME NEW i \in 1 .. at' - 1, Own(Entries[i])
        PROVE  Updated(Entries[i])'
    <3>1. CASE i = at
      <4>1. Entries[i] = Path
        BY <3>1 DEF Path
      <4> QED
        BY <2>2, <4>1 DEF Updated
    <3>2. CASE i # at
      <4>1. i \in 1 .. at - 1
        BY <1>1, <1>3, <3>2 DEF WriteFile
      <4> QED
        BY <2>4, <2>5, <4>1
    <3> QED
      BY <3>1, <3>2
  <2>6. WalkInv' /\ ContentsInv' /\ EndInv'
    BY <1>1, <1>3, <2>5 DEF InitInv, WalkInv, ContentsInv, EndInv, WriteFile
  <2> QED
    BY <2>1, <2>6 DEF InitInv
<1>4. CASE WriteFails
  <2>1. PICK part \in Parts(contents) : files' = [files EXCEPT ![Path] = part]
    BY <1>4 DEF WriteFails
  <2>2. Path \in Flux => FluxContent(part)
    BY <1>2, <2>1 DEF Parts, FluxContent
  <2>3. faults' \in 0 .. MaxFaults
    BY <1>4, FaultInRange DEF InitInv, WriteFails
  <2>4. TypeOK'
    BY <1>1, <1>4, <2>1, <2>2, <2>3 DEF InitInv, TypeOK, FluxContent, WriteFails, Ends, Path
  <2>5. WalkInv' /\ ContentsInv' /\ EndInv'
    BY <1>4 DEF WalkInv, ContentsInv, EndInv, WriteFails, Ends
  <2> QED
    BY <2>4, <2>5 DEF InitInv
<1> QED
  BY <1>3, <1>4

\* Every step of a run, of the owner or of a fault preserves the invariant.
LEMMA NextInv ==
  ASSUME InitInv, [Next]_vars
  PROVE  InitInv'
<1>1. CASE WalkFails \/ ReadFails \/ OpenFails \/ Kill
  <2>1. faults' \in 0 .. MaxFaults
    BY <1>1, FaultInRange DEF InitInv, WalkFails, ReadFails, OpenFails, Kill
  <2>2. /\ pc' = "idle" /\ outcome' \in {"failed", "missing", "killed"} /\ found' \in BOOLEAN
        /\ UNCHANGED <<at, skipped, options, files, manifests, runs>>
    BY <1>1 DEF InitInv, TypeOK, WalkFails, ReadFails, OpenFails, Kill, Ends, Found
  <2>3. cut' \subseteq Flux \union WeaveNet
    BY <1>1 DEF InitInv, TypeOK, WalkFails, ReadFails, OpenFails, Kill
  <2> QED
    BY <2>1, <2>2, <2>3, EndingInv
<1>2. CASE ValidateFatal \/ UpdateRejected
  <2>1. /\ pc' = "idle" /\ outcome' \in {"failed", "missing", "fatal"} /\ found' \in BOOLEAN
        /\ UNCHANGED <<at, skipped, options, files, manifests, runs>>
        /\ faults' \in 0 .. MaxFaults /\ cut' \subseteq Flux \union WeaveNet
    BY <1>2 DEF InitInv, TypeOK, ValidateFatal, UpdateRejected, Ends
  <2> QED
    BY <2>1, EndingInv
<1>3. CASE UNCHANGED vars
  BY <1>3 DEF vars, InitInv, TypeOK, WalkInv, ContentsInv, EndInv, Updated, Path, More
<1> QED
  BY <1>1, <1>2, <1>3, OwnerInv, WalkingInv, UpdatingInv, WritingInv DEF Next

\* The inductive invariant holds in every behaviour of wksctl init.
THEOREM InvHolds == Spec => []InitInv
<1>1. Init => InitInv
  BY StartInv
<1>2. InitInv /\ [Next]_vars => InitInv'
  BY NextInv
<1> QED
  BY <1>1, <1>2, PTL DEF Spec

\* At first no field is missing, nor changed.
LEMMA StartCut == Init => CutInv
BY DEF Init, CutInv, Kept, Whole

\* The updater keeps the fields that it does not match, and leaves none out.
LEMMA UpdatedKept ==
  ASSUME NEW content, NEW path
  PROVE  /\ Kept(content, path) => Kept(FluxUpdated(content), path)
         /\ Whole(content, path) => Whole(FluxUpdated(content), path)
BY DEF Kept, Whole, FluxUpdated, Matched

\* Every step preserves CutInv: reading, updating, opening and writing a file, and
\* the fault or the kill that cuts the write short.
LEMMA CutStep ==
  ASSUME InitInv, CutInv, [Next]_vars
  PROVE  CutInv'
<1>1. CASE ReadFile
  <2>1. files' = files /\ cut' = cut /\ Path' = Path /\ contents' = files[Path]
        /\ pc = "walk" /\ pc' = "update"
    BY <1>1 DEF ReadFile, Visited, Path
  <2> QED
    BY <2>1 DEF CutInv, Kept, Whole
<1>2. CASE UpdateFlux
  <2>1. files' = files /\ cut' = cut /\ Path' = Path /\ contents' = FluxUpdated(contents)
        /\ pc = "update" /\ pc' = "open"
    BY <1>2 DEF UpdateFlux, Path
  <2>2. Path \in Flux => Kept(contents, Path) /\ (Path \in cut \/ Whole(contents, Path))
    BY <2>1 DEF CutInv
  <2>3. Path \in Flux => Kept(contents', Path) /\ (Path \in cut \/ Whole(contents', Path))
    BY <2>1, <2>2, UpdatedKept, Zenon
  <2> QED
    BY <2>1, <2>3 DEF CutInv, Kept, Whole
<1>3. CASE UpdateWeaveNet
  BY <1>3, Kinds DEF CutInv, UpdateWeaveNet, Path, Kept, Whole
<1>4. CASE OpenFile
  <2>1. cut' = cut /\ Path' = Path /\ contents' = contents /\ pc = "open" /\ pc' = "write"
        /\ files' = [files EXCEPT ![Path] = <<>>]
    BY <1>4 DEF OpenFile, Path
  <2>2. ASSUME NEW path \in Flux
        PROVE  /\ Kept(files'[path], path)
               /\ path \in cut \/ Whole(files'[path], path) \/ path = Path
    BY <2>1 DEF CutInv, InitInv, TypeOK, Kept
  <2> QED
    BY <2>1, <2>2 DEF CutInv, Kept, Whole
<1>5. CASE WriteFile
  <2>1. cut' = cut /\ pc = "write" /\ pc' = "walk" /\ files' = [files EXCEPT ![Path] = contents]
    BY <1>5 DEF WriteFile
  <2>2. ASSUME NEW path \in Flux
        PROVE  /\ Kept(files'[path], path)
               /\ path \in cut \/ Whole(files'[path], path)
    BY <2>1 DEF CutInv, InitInv, TypeOK
  <2> QED
    BY <2>1, <2>2 DEF CutInv, Kept, Whole
<1>6. CASE WriteFails
  <2>1. PICK part \in Parts(contents) : files' = [files EXCEPT ![Path] = part]
    BY <1>6 DEF WriteFails
  <2>2. cut' = cut \union {Path} /\ pc = "write" /\ pc' = "idle"
    BY <1>6 DEF WriteFails, Ends
  <2>3. Path \in Flux => Kept(part, Path)
    BY <2>1, <2>2 DEF CutInv, Parts, Kept
  <2>4. ASSUME NEW path \in Flux
        PROVE  /\ Kept(files'[path], path)
               /\ path \in cut' \/ Whole(files'[path], path)
    BY <2>1, <2>2, <2>3 DEF CutInv, InitInv, TypeOK
  <2> QED
    BY <2>2, <2>4 DEF CutInv, Kept, Whole
<1>7. CASE Kill
  BY <1>7 DEF Kill, CutInv, Kept, Whole
<1>8. CASE Checkout
  BY <1>8 DEF Checkout, CutInv, Kept, Whole
<1>9. CASE (\E m \in Manifests : Edit(m)) \/ (\E flags \in Options : Begin(flags))
  BY <1>9 DEF Edit, Begin, CutInv, Kept, Whole
<1>10. CASE \/ Pass \/ Skip \/ Finish \/ WalkFails \/ ReadFails \/ UpdateRejected
            \/ ValidateFatal \/ OpenFails
  BY <1>10 DEF Pass, Skip, Visited, Finish, WalkFails, ReadFails, UpdateRejected,
               ValidateFatal, OpenFails, Ends, CutInv, Kept, Whole
<1>11. CASE UNCHANGED vars
  BY <1>11 DEF vars, CutInv, Path, Kept, Whole
<1> QED
  BY <1>1, <1>2, <1>3, <1>4, <1>5, <1>6, <1>7, <1>8, <1>9, <1>10, <1>11 DEF Next

--------------------------------------------------------------------------------
\* What follows from it.

\* Every variable keeps its type.
THEOREM TypeCorrect == Spec => []TypeOK
<1>1. InitInv => TypeOK
  BY DEF InitInv
<1> QED
  BY <1>1, InvHolds, PTL

\* After a run that succeeds, a flux manifest of the repository that no write has
\* cut short has all its fields, with the options of this run in those that init
\* writes, but empty ones, and what the repository had in the others; one that was
\* cut short has no other value in what is left of it.  And every weave-net manifest
\* has the network of the cluster manifest.
THEOREM AlwaysUpdatesAll == Spec => []InitUpdatesAll
<1>1. CutInv /\ InitInv /\ [Next]_vars => CutInv'
  BY CutStep
<1>2. Spec => []CutInv
  BY <1>1, StartCut, InvHolds, PTL DEF Spec
<1>3. InitInv /\ CutInv => InitUpdatesAll
  BY Kinds DEF InitInv, EndInv, Updated, CutInv, Kept, Whole, InitUpdatesAll
<1> QED
  BY <1>2, <1>3, InvHolds, PTL

\* After a run that succeeds no address belongs to a pod and to a service.
THEOREM PodNetworkAlwaysApart == Spec => []PodNetworkApart
<1>1. InitInv => PodNetworkApart
  <2> SUFFICES ASSUME InitInv, pc = "idle", outcome = "ok", NEW path \in WeaveNet, Own(path)
               PROVE  Addresses(files[path].ipalloc_range)
                        \intersect Addresses(manifests.cluster.services[1]) = {}
    BY DEF PodNetworkApart
  <2> DEFINE cluster == manifests.cluster
  <2>1. ValidManifests(manifests) /\ files[path].ipalloc_range = cluster.pods[1]
    BY Kinds DEF InitInv, EndInv, Updated
  <2>2. cluster \in Clusters
    BY InitManifestsAssumption DEF InitInv, TypeOK
  <2>3. Populated(cluster).services = cluster.services /\ Populated(cluster).pods = cluster.pods
    BY <2>2 DEF Populated, Clusters
  <2>4. /\ IsOneNetwork(cluster.services) /\ IsOneNetwork(cluster.pods)
        /\ ~NetworksIntersect(cluster.services[1], cluster.pods[1])
    BY <2>1, <2>3 DEF ValidManifests, ValidCluster, ValidCIDRBlocks
  <2>5. cluster.services[1] \in Blocks /\ cluster.pods[1] \in Blocks
    BY <2>4, <2>2 DEF IsOneNetwork, IsValidCIDR, Clusters
  <2>6. Addresses(cluster.services[1]) \intersect Addresses(cluster.pods[1]) = {}
    BY <2>4, <2>5, NetworksIntersectExact DEF IsOneNetwork
  <2> QED
    BY <2>1, <2>6
<1> QED
  BY <1>1, InvHolds, PTL

--------------------------------------------------------------------------------
\* The files that init leaves alone.

\* The walk meets an entry named .git before the manifests that it keeps the walk
\* from: it always does when it is a directory, and when it is a file, that of a
\* submodule, unless the submodule has directories whose names sort before it.
GitFirst ==
  \A i, j \in DOMAIN Entries :
    /\ Kind(Entries[i]) = "git"
    /\ Under(SkipDir(Entries[i]), Entries[j])
    /\ Entries[j] \in Flux \union WeaveNet
    => i < j

\* What is below an entry named .git that the walk has passed is skipped, with
\* that entry or with one above; a file that is read or written is not skipped.
CoverInv ==
  /\ pc # "idle" =>
       \A i \in 1 .. at - 1 : Kind(Entries[i]) = "git" =>
         \A path \in Paths : Under(SkipDir(Entries[i]), path) =>
           \E dir \in skipped : Under(dir, path)
  /\ pc \in {"update", "open", "write"} => \A dir \in skipped : ~Under(dir, Path)

\* A prefix has as many elements as are taken.
LEMMA PrefixLength ==
  ASSUME NEW S, NEW s \in Seq(S), NEW n \in 0 .. Len(s)
  PROVE  Len(SubSeq(s, 1, n)) = n
<1>1. \A i \in 1 .. n : s[i] \in S
  OBVIOUS
<1>2. Len(SubSeq(s, 1, n)) = IF 1 <= n THEN n - 1 + 1 ELSE 0
  BY <1>1, SubSeqProperties
<1> QED
  BY <1>2

\* What is below an entry named .git, or in the directory of a file of that name,
\* is below every directory that this entry is below.
LEMMA SkippedAbove ==
  ASSUME NEW git \in Paths, NEW path \in Paths, NEW dir, dir \in Seq(STRING),
         Under(dir, git), Under(SkipDir(git), path)
  PROVE  Under(dir, path)
<1> DEFINE m == Len(dir)
           s == SkipDir(git)
<1>1. git \in Seq(STRING) /\ path \in Seq(STRING) /\ Len(git) \in Nat /\ Len(path) \in Nat
      /\ m \in Nat /\ m < Len(git)
  BY InitManifestsAssumption DEF Paths, Under
<1>2. Len(s) \in Nat /\ m <= Len(s) /\ Len(s) <= Len(git) /\ s = SubSeq(git, 1, Len(s))
  <2>1. CASE s = git
    BY <1>1, <2>1
  <2>2. CASE s = SubSeq(git, 1, Len(git) - 1)
    <3>1. Len(s) = Len(git) - 1
      <4>1. Len(git) - 1 \in 0 .. Len(git)
        BY <1>1
      <4>2. Len(SubSeq(git, 1, Len(git) - 1)) = Len(git) - 1
        BY <1>1, <4>1, PrefixLength, Zenon
      <4> QED
        BY <2>2, <4>2, Zenon
    <3>2. s = SubSeq(git, 1, Len(s))
      BY <2>2, <3>1, Zenon
    <3> QED
      BY <1>1, <3>1, <3>2
  <2> QED
    BY <2>1, <2>2 DEF SkipDir, Dir
<1>3. Len(s) < Len(path) /\ SubSeq(path, 1, Len(s)) = s
  BY DEF Under
<1> HIDE DEF s, m
<1>4. \A i \in 1 .. m : dir[i] = git[i]
  <2>1. SubSeq(git, 1, m) = dir
    BY DEF Under, m
  <2> QED
    BY <1>1, <2>1
<1>5. \A i \in 1 .. m : git[i] = path[i]
  <2>1. \A i \in 1 .. m : s[i] = git[i] /\ s[i] = path[i]
    BY <1>1, <1>2, <1>3
  <2> QED
    BY <2>1
<1>6. SubSeq(path, 1, m) = dir
  <2>1. SubSeq(path, 1, m) \in Seq(STRING) /\ Len(SubSeq(path, 1, m)) = m
    BY <1>1, <1>2, <1>3
  <2>2. \A i \in 1 .. m : SubSeq(path, 1, m)[i] = dir[i]
    BY <1>1, <1>2, <1>3, <1>4, <1>5
  <2>3. Len(dir) = m
    BY DEF m
  <2> QED
    BY <2>1, <2>2, <2>3, SeqEqual
<1> QED
  BY <1>1, <1>2, <1>3, <1>6 DEF Under, m

\* The steps of the walk leave nothing below an entry named .git to be visited.
LEMMA CoverKept ==
  ASSUME TypeOK, CoverInv, [Next]_vars
  PROVE  CoverInv'
<1>1. CASE Pass
  <2>1. ASSUME NEW i \in 1 .. at' - 1, Kind(Entries[i]) = "git",
               NEW path \in Paths, Under(SkipDir(Entries[i]), path)
        PROVE  \E dir \in skipped' : Under(dir, path)
    <3>1. CASE i = at
      BY <1>1, <2>1, <3>1 DEF Pass, AfterGit, Path
    <3>2. CASE i \in 1 .. at - 1
      <4>1. PICK dir \in skipped : Under(dir, path)
        BY <1>1, <2>1, <3>2 DEF CoverInv, Pass, Visited
      <4> QED
        BY <1>1, <4>1 DEF Pass, AfterGit
    <3> QED
      BY <1>1, <3>1, <3>2 DEF TypeOK, Pass
  <2> QED
    BY <1>1, <2>1 DEF CoverInv, Pass, Visited
<1>2. CASE Skip
  <2>1. PICK above \in skipped : Under(above, Path)
    BY <1>2 DEF Skip, Visited
  <2>2. Path \in Paths /\ above \in Seq(STRING)
    <3>1. Path \in Paths
      BY <1>2 DEF Skip, More, Path, Paths, TypeOK
    <3>2. PICK git \in Paths : above = SkipDir(git)
      BY DEF TypeOK
    <3>3. git \in Seq(STRING)
      BY <3>2, InitManifestsAssumption DEF Paths
    <3>4. above = git \/ above = SubSeq(git, 1, Len(git) - 1)
      BY <3>2 DEF SkipDir, Dir
    <3> QED
      BY <3>1, <3>3, <3>4
  <2>3. ASSUME NEW i \in 1 .. at' - 1, Kind(Entries[i]) = "git",
               NEW path \in Paths, Under(SkipDir(Entries[i]), path)
        PROVE  \E dir \in skipped' : Under(dir, path)
    <3>1. CASE i = at
      BY <1>2, <2>1, <2>2, <2>3, <3>1, SkippedAbove DEF Skip, Path
    <3>2. CASE i \in 1 .. at - 1
      BY <1>2, <2>3, <3>2 DEF CoverInv, Skip
    <3> QED
      BY <1>2, <3>1, <3>2 DEF TypeOK, Skip
  <2> QED
    BY <1>2, <2>3 DEF CoverInv, Skip
<1>3. CASE ReadFile
  BY <1>3 DEF CoverInv, ReadFile, Visited, Path
<1>4. CASE WriteFile
  <2>1. at \in 1 .. Len(Entries) /\ Kind(Path) # "git"
    BY <1>4, Kinds DEF TypeOK, WriteFile, More
  <2>2. ASSUME NEW i \in 1 .. at' - 1, Kind(Entries[i]) = "git"
        PROVE  i \in 1 .. at - 1
    BY <1>4, <2>1, <2>2 DEF WriteFile, Path
  <2> QED
    BY <1>4, <2>2 DEF CoverInv, WriteFile
<1>5. CASE \E flags \in Options : Begin(flags)
  BY <1>5 DEF CoverInv, Begin
<1>6. CASE (\E m \in Manifests : Edit(m)) \/ Checkout
  BY <1>6 DEF CoverInv, Edit, Checkout
<1>7. CASE UpdateFlux \/ UpdateWeaveNet \/ OpenFile
  BY <1>7 DEF CoverInv, UpdateFlux, UpdateWeaveNet, OpenFile, Path
<1>8. CASE \/ Finish \/ WalkFails \/ ReadFails \/ UpdateRejected \/ ValidateFatal
           \/ OpenFails \/ WriteFails \/ Kill
  BY <1>8 DEF CoverInv, Finish, WalkFails, ReadFails, UpdateRejected, ValidateFatal,
              OpenFails, WriteFails, Kill, Ends
<1>9. CASE UNCHANGED vars
  BY <1>9 DEF CoverInv, vars, Path
<1> QED
  BY <1>1, <1>2, <1>3, <1>4, <1>5, <1>6, <1>7, <1>8, <1>9 DEF Next

\* A file that init writes is one of the repository itself.
LEMMA WritesOwn ==
  ASSUME GitFirst, TypeOK, CoverInv, pc \in {"open", "write"}
  PROVE  Own(Path)
<1>1. at \in DOMAIN Entries /\ Path \in Paths /\ Path \in Flux \union WeaveNet
  BY InitManifestsAssumption DEF TypeOK, More, Path, Paths
<1> SUFFICES ASSUME NEW git \in Paths, Kind(git) = "git", Under(SkipDir(git), Path)
             PROVE  FALSE
  BY DEF Own, SkipDir
<1>2. PICK i \in DOMAIN Entries : git = Entries[i]
  BY DEF Paths
<1>3. i < at
  BY <1>1, <1>2 DEF GitFirst, Path
<1>4. i \in 1 .. at - 1
  BY <1>1, <1>2, <1>3, InitManifestsAssumption DEF TypeOK
<1>5. \E dir \in skipped : Under(dir, Path)
  BY <1>1, <1>2, <1>4 DEF CoverInv
<1> QED
  BY <1>5 DEF CoverInv

\* If the walk meets .git first, no run of init changes a file of Git or of a
\* submodule.
THEOREM OthersNeverTouched == ASSUME GitFirst PROVE Spec => OthersUntouched
<1>1. Init => CoverInv
  BY DEF Init, CoverInv
<1>2. TypeOK /\ CoverInv /\ [Next]_vars => CoverInv'
  BY CoverKept
<1>3. TypeOK /\ CoverInv /\ [Next]_vars =>
        [pc # "idle" => \A path \in Flux \union WeaveNet :
           ~Own(path) => files'[path] = files[path]]_vars
  <2> SUFFICES ASSUME TypeOK, CoverInv, Next, pc # "idle",
                      NEW path \in Flux \union WeaveNet, ~Own(path)
               PROVE  files'[path] = files[path]
    OBVIOUS
  <2>1. CASE OpenFile \/ WriteFile \/ WriteFails
    <3>1. path # Path
      BY <2>1, WritesOwn DEF OpenFile, WriteFile, WriteFails
    <3>2. \E new : files' = [files EXCEPT ![Path] = new]
      BY <2>1 DEF OpenFile, WriteFile, WriteFails
    <3> QED
      BY <3>1, <3>2 DEF TypeOK
  <2>2. CASE ~(OpenFile \/ WriteFile \/ WriteFails)
    <3>1. files' = files
      BY <2>2 DEF Next, Edit, Checkout, Begin, Pass, Skip, Finish, WalkFails, ReadFile,
                  ReadFails, UpdateFlux, UpdateWeaveNet, UpdateRejected, ValidateFatal,
                  OpenFails, Kill
    <3> QED
      BY <3>1
  <2> QED
    BY <2>1, <2>2
<1> QED
  BY <1>1, <1>2, <1>3, TypeCorrect, PTL DEF Spec, OthersUntouched
================================================================================
