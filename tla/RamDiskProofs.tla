--------------------------- MODULE RamDiskProofs ----------------------------
(***************************************************************************)
(* The mount publishes a whole disk, for every image, name and memory; and *)
(* what ls, cat, read and finddir make of it is what FileStore promises.   *)
(* For the mount the nodes are never looked into; for the promise, Holds   *)
(* says once what string is in an array, and the string functions are seen *)
(* through it.  Size keeps the lengths of strings apart from those arrays. *)
(***************************************************************************)
EXTENDS RamDisk, WellFoundedInduction, TLAPS

(* The packer writes the number of files that it packs.                    *)
LEMMA PackedTwo ==
  ASSUME NEW files PROVE make_initrd(files).num_of_files = 2
BY DEF make_initrd

(* The calls read the disk and change nothing but the answer.              *)
LEMMA CallsAreQuiet ==
  ASSUME \/ ls
         \/ \E name \in Typed : cat(Named(name))
         \/ \E i \in Index, r \in Request : read_fs(i, r[1], r[2])
         \/ \E call \in Calls : CallNotProvided(call)
  PROVE  Quiet
BY DEF ls, cat, read_fs, CallNotProvided

(* Where kmain is says how far the nodes are.                              *)
Node(i) == {UnusedNode, FileNode(i)}

Progress ==
  /\ phase \in {"root", "nodes", "fill", "mounted"} => initrd_num_files = 2
  /\ phase \in {"fill", "mounted"} => initrd_file_nodes \in [Index -> UNION {Node(i) : i \in Index}]
  /\ phase = "fill" => \A i \in Index : initrd_file_nodes[i] \in Node(i)
  /\ phase = "mounted" => \A i \in Index : initrd_file_nodes[i] = FileNode(i)

IInv ==
  /\ TypeOK
  /\ Progress
  /\ fs_root # NULL => phase = "terminal"
  /\ MountedWhole

LEMMA InitHolds == Init => IInv
<1> SUFFICES ASSUME Init PROVE IInv
    OBVIOUS
<1>1. TypeOK
    BY DEF Init, TypeOK
<1> QED
    BY <1>1 DEF Init, IInv, Progress, MountedWhole

(* A step that is not a call is a step of kmain.                           *)
LEMMA MountStep == IInv /\ (FindModule \/ MakeRoot \/ MakeNodes \/ FillNode \/ Publish) => IInv'
<1> SUFFICES ASSUME IInv, FindModule \/ MakeRoot \/ MakeNodes \/ FillNode \/ Publish
             PROVE  IInv'
    OBVIOUS
<1>t. TypeOK /\ Progress /\ MountedWhole /\ (fs_root # NULL => phase = "terminal")
    BY DEF IInv
<1>d. UNCHANGED disk
    BY DEF FindModule, MakeRoot, MakeNodes, FillNode, Publish
<1>n. image' = image /\ image.num_of_files = 2
    BY <1>t, <1>d, PackedTwo DEF TypeOK, disk
<1>s. /\ rootfs' \in [File -> Content \union {Missing}]
      /\ image' = make_initrd(rootfs')
      /\ module' \in BOOLEAN
    <2>1. rootfs' = rootfs /\ module' = module
        BY <1>d DEF disk
    <2> QED
        BY <1>t, <1>n, <2>1 DEF TypeOK
<1>f. \A i \in Index : FileNode(i)' = FileNode(i)
    BY <1>n DEF FileNode
<1>1. CASE FindModule
    <2>1. fs_root = NULL /\ fs_root' = NULL
        BY <1>1, <1>t DEF FindModule
    <2>2. TypeOK'
        BY <1>1, <1>t, <1>s, <1>f, <1>n DEF FindModule, TypeOK
    <2> QED
        BY <1>1, <2>1, <2>2, <1>n DEF FindModule, IInv, Progress, MountedWhole
<1>2. CASE MakeRoot
    <2>1. fs_root = NULL /\ fs_root' = NULL
        BY <1>2, <1>t DEF MakeRoot
    <2>2. TypeOK'
        BY <1>2, <1>t, <1>s, <1>f DEF MakeRoot, TypeOK
    <2> QED
        BY <1>2, <1>t, <2>1, <2>2 DEF MakeRoot, IInv, Progress, MountedWhole
<1>3. CASE MakeNodes
    <2>1. fs_root = NULL /\ fs_root' = NULL
        BY <1>3, <1>t DEF MakeNodes
    <2>2. initrd_file_nodes' = [i \in Index |-> UnusedNode]
        <3>1. 0 .. initrd_num_files - 1 = Index
            BY <1>3, <1>t DEF MakeNodes, Progress, Index
        <3> QED
            BY <1>3, <3>1 DEF MakeNodes
    <2>3. \A i \in Index : initrd_file_nodes'[i] = UnusedNode
        BY <2>2
    <2>4. TypeOK'
        BY <1>3, <1>t, <1>s, <1>f, <2>2 DEF MakeNodes, TypeOK
    <2>5. Progress'
        BY <1>3, <1>t, <1>f, <2>2, <2>3 DEF MakeNodes, Progress, Node
    <2> QED
        BY <2>1, <2>4, <2>5 DEF IInv, MountedWhole
<1>4. CASE FillNode
    <2>1. fs_root = NULL /\ fs_root' = NULL
        BY <1>4, <1>t DEF FillNode
    <2>2. /\ phase = "fill" /\ initrd_num_files = 2 /\ initrd_num_files' = 2
          /\ initrd_file_nodes \in [Index -> UNION {Node(i) : i \in Index}]
          /\ \A i \in Index : initrd_file_nodes[i] \in Node(i)
        BY <1>4, <1>t DEF FillNode, Progress
    <2>3. PICK i \in Index :
            /\ \A j \in 0 .. i - 1 : initrd_file_nodes[j] # UnusedNode
            /\ initrd_file_nodes' = [initrd_file_nodes EXCEPT ![i] = FileNode(i)]
            /\ phase' = IF i = 1 THEN "mounted" ELSE "fill"
        <3>1. DOMAIN initrd_file_nodes = Index /\ initrd_num_files - 1 = 1
            BY <2>2
        <3> QED
            BY <1>4, <3>1 DEF FillNode
    <2>4. /\ initrd_file_nodes' \in [Index -> UNION {Node(j) : j \in Index}]
          /\ \A j \in Index : initrd_file_nodes'[j] \in Node(j)
          /\ initrd_file_nodes'[i] = FileNode(i)
          /\ \A j \in Index : j # i => initrd_file_nodes'[j] = initrd_file_nodes[j]
        BY <2>2, <2>3 DEF Node
    <2>5. i = 1 => initrd_file_nodes'[0] = FileNode(0)
        BY <2>2, <2>3, <2>4 DEF Node, Index
    <2>6. Progress'
        <3>1. phase' = "mounted" => \A j \in Index : initrd_file_nodes'[j] = FileNode(j)
            BY <2>3, <2>4, <2>5 DEF Index
        <3>2. phase' = "mounted" \/ phase' = "fill"
            BY <2>3
        <3>3. \A j \in Index : Node(j)' = Node(j)
            BY <1>f DEF Node
        <3>4. initrd_file_nodes' \in [Index -> UNION {Node(j)' : j \in Index}]
            BY <2>4, <3>3
        <3> QED
            BY <1>f, <2>2, <2>4, <3>1, <3>2, <3>3, <3>4 DEF Progress
    <2>7. TypeOK'
        <3>1. initrd_file_nodes' \in [Index -> {UnusedNode} \union {FileNode(j)' : j \in Index}]
            BY <1>f, <2>4 DEF Node
        <3>2. phase' \in {"mounted", "fill"} /\ UNCHANGED <<initrd_root, fs_root>>
            BY <1>4, <2>3 DEF FillNode
        <3> QED
            BY <1>t, <1>s, <2>2, <3>1, <3>2 DEF TypeOK
    <2> QED
        BY <2>1, <2>6, <2>7 DEF IInv, MountedWhole
<1>5. CASE Publish
    <2>1. /\ phase = "mounted" /\ phase' = "terminal" /\ fs_root' = initrd_root
          /\ UNCHANGED <<initrd_num_files, initrd_root, initrd_file_nodes>>
        BY <1>5 DEF Publish
    <2>2. TypeOK'
        BY <1>t, <1>s, <1>f, <2>1 DEF TypeOK
    <2> QED
        BY <1>t, <1>f, <2>1, <2>2 DEF IInv, Progress, MountedWhole
<1> QED
    BY <1>1, <1>2, <1>3, <1>4, <1>5

(* Nothing but a step of kmain changes the disk.                           *)
LEMMA QuietStep == IInv /\ (Quiet \/ UNCHANGED vars) => IInv'
<1> SUFFICES ASSUME IInv, Quiet \/ UNCHANGED vars PROVE IInv'
    OBVIOUS
<1>1. UNCHANGED <<rootfs, image, module, phase, initrd_num_files, initrd_root,
                  initrd_file_nodes, fs_root>>
    BY DEF Quiet, vars, disk
<1>2. \A i : FileNode(i)' = FileNode(i)
    BY <1>1 DEF FileNode
<1>3. TypeOK'
    BY <1>1, <1>2 DEF IInv, TypeOK
<1> QED
    BY <1>1, <1>2, <1>3 DEF IInv, Progress, MountedWhole, Node

LEMMA Invariance == Spec => []IInv
<1>1. IInv /\ [Next]_vars => IInv'
    BY MountStep, QuietStep, CallsAreQuiet DEF Next
<1> QED
    BY InitHolds, <1>1, PTL DEF Spec

(* The state of the mount stays in its type.                               *)
THEOREM TypeCorrect == Spec => []TypeOK
<1>1. IInv => TypeOK
    BY DEF IInv
<1> QED
    BY Invariance, <1>1, PTL

(* initialize_initrd and kmain.c:121: a command typed at any moment of the *)
(* boot finds no disk, or the whole disk.                                  *)
THEOREM MountIsWhole == Spec => []MountedWhole
<1>1. IInv => MountedWhole
    BY DEF IInv
<1> QED
    BY Invariance, <1>1, PTL

-----------------------------------------------------------------------------
(* Strings in arrays of NAME characters, with junk behind the end.  Size   *)
(* keeps Len out of what is said of the arrays, which are no sequences.    *)
Size(text) == Len(text)

Word(text) == text \in Seq(Nat \ {Nul}) /\ Len(text) < NAME

Holds(s, text) ==
  /\ DOMAIN s = 0 .. NAME - 1
  /\ \A i \in 0 .. Size(text) - 1 : s[i] = text[i + 1]
  /\ s[Size(text)] = Nul

LEMMA WordSize ==
  ASSUME NEW text, Word(text)
  PROVE  /\ NAME \in Nat /\ Size(text) \in Nat /\ Size(text) < NAME
         /\ \A k \in 1 .. Size(text) : text[k] \in Nat \ {Nul}
         /\ text = [k \in 1 .. Size(text) |-> text[k]]
BY RamDiskAssumption DEF Word, Size

LEMMA Words ==
  /\ \A i \in Index : Word(FileName[i + 1])
  /\ \A name \in Typed : Word(name)
<1>1. \A i \in Index : i + 1 \in File
    BY DEF Index, File
<1> QED
    BY <1>1, RamDiskAssumption DEF Word

LEMMA MinIs ==
  ASSUME NEW S \in SUBSET Nat, NEW m \in S, \A y \in S : m <= y
  PROVE  Min(S) = m
<1>1. Min(S) = CHOOSE x \in S : \A y \in S : x <= y
    BY Zenon DEF Min
<1>2. Min(S) \in S /\ \A y \in S : Min(S) <= y
    BY <1>1, Zenon
<1>3. m \in Nat /\ Min(S) \in Nat /\ m <= Min(S) /\ Min(S) <= m
    BY <1>2
<1> QED
    BY <1>3

LEMMA Least ==
  ASSUME NEW T, T \subseteq Nat, T # {}
  PROVE  \E x \in T : \A y \in T : x <= y
<1> DEFINE R == {ss \in Nat \X Nat : ss[1] < ss[2]}
<1>1. OpToRel(<, Nat) = R
    BY DEF OpToRel
<1>2. IsWellFoundedOn(R, Nat)
    BY <1>1, NatLessThanWellFounded, Zenon
<1>3. \A x \in T, y \in T : <<y, x>> \in R <=> y < x
    OBVIOUS
<1> HIDE DEF R
<1>4. PICK x \in T : \A y \in T : ~ (<<y, x>> \in R)
    BY <1>2, WFMin, Zenon
<1>5. \A y \in T : ~ (y < x)
    BY <1>3, <1>4
<1> QED
    BY <1>5

LEMMA NoWrap == ASSUME NEW x \in Nat, NEW w \in Nat, x < w PROVE x % w = x
OBVIOUS

LEMMA SameWord ==
  ASSUME NEW a, NEW b, Word(a), Word(b), Size(a) = Size(b), \A k \in 1 .. Size(a) : a[k] = b[k]
  PROVE  a = b
<1>1. /\ a = [k \in 1 .. Size(a) |-> a[k]]
      /\ b = [k \in 1 .. Size(a) |-> b[k]]
    BY WordSize
<1>2. [k \in 1 .. Size(a) |-> a[k]] = [k \in 1 .. Size(a) |-> b[k]]
    OBVIOUS
<1> QED
    BY <1>1, <1>2, Zenon

LEMMA NamedHolds ==
  ASSUME NEW text, Word(text) PROVE Holds(Named(text), text)
<1>1. Named(text) = [i \in 0 .. NAME - 1 |-> IF i < Size(text) THEN text[i + 1]
                                             ELSE IF i = Size(text) THEN Nul ELSE Junk]
    BY Zenon DEF Named, Size
<1> QED
    BY <1>1, WordSize DEF Holds

LEMMA HeldText ==
  ASSUME NEW s, NEW text, Word(text), Holds(s, text)
  PROVE  End(s) = Size(text) /\ Text(s) = text
<1>1. Size(text) \in 0 .. NAME - 1 /\ \A i \in 0 .. Size(text) - 1 : s[i] # Nul
    BY WordSize DEF Holds
<1>2. End(s) = Size(text)
    <2> DEFINE S == {i \in DOMAIN s : s[i] = Nul}
    <2>1. S \in SUBSET Nat /\ Size(text) \in S
        BY <1>1 DEF Holds
    <2>2. \A y \in S : Size(text) <= y
        BY <1>1, <2>1 DEF Holds
    <2> HIDE DEF S
    <2>3. Min(S) = Size(text)
        BY <2>1, <2>2, MinIs
    <2> QED
        BY <2>3 DEF S, End
<1>3. Text(s) = [k \in 1 .. Size(text) |-> text[k]]
    BY <1>1, <1>2 DEF Text, Holds
<1> QED
    BY <1>2, <1>3, WordSize

(* What initrd_readdir copies into the dirent.                             *)
LEMMA CopyHolds ==
  ASSUME NEW s, NEW text, Word(text), Holds(s, text)
  PROVE  /\ Holds(strcpy([i \in 0 .. NAME - 1 |-> Junk], s), text)
         /\ strcpy([i \in 0 .. NAME - 1 |-> Junk], s) # NULL
<1> DEFINE copy == strcpy([i \in 0 .. NAME - 1 |-> Junk], s)
<1>1. End(s) = Size(text)
    BY HeldText
<1>2. copy = [i \in 0 .. NAME - 1 |-> IF i <= Size(text) THEN s[i] ELSE Junk]
    BY <1>1 DEF strcpy
<1> HIDE DEF copy
<1>3. NAME \in Nat /\ Size(text) \in Nat /\ Size(text) < NAME
    BY WordSize
<1>4. Holds(copy, text)
    BY <1>2, <1>3 DEF Holds
<1>5. copy \in [0 .. NAME - 1 -> Nat \union {Junk}]
    <2>1. ASSUME NEW i \in 0 .. Size(text) PROVE s[i] \in Nat
        BY <1>3, WordSize DEF Holds, Nul
    <2> QED
        BY <1>2, <1>3, <2>1
<1>6. copy # NULL
    <2>1. NULL \notin [0 .. NAME - 1 -> Nat \union {Junk}]
        BY RamDiskAssumption, Zenon
    <2> QED
        BY <1>5, <2>1, Zenon
<1> QED
    BY <1>4, <1>6 DEF copy

(* strcmp stops at the first difference, or at the end of both.            *)
LEMMA Compared ==
  ASSUME NEW a, NEW b, Word(a), Word(b), NEW s, NEW t, Holds(s, a), Holds(t, b)
  PROVE  strcmp(s, t) = 0 <=> a = b
<1> DEFINE J == {j \in DOMAIN s \intersect DOMAIN t : s[j] = Nul \/ s[j] # t[j]}
<1>0. NAME \in Nat /\ Nul = 0
    BY RamDiskAssumption DEF Nul
<1>a. /\ Size(a) \in Nat /\ Size(a) < NAME /\ s[Size(a)] = 0
      /\ \A j \in 0 .. Size(a) - 1 : s[j] = a[j + 1] /\ s[j] \in Nat \ {0}
    BY <1>0, WordSize DEF Holds
<1>b. /\ Size(b) \in Nat /\ Size(b) < NAME /\ t[Size(b)] = 0
      /\ \A j \in 0 .. Size(b) - 1 : t[j] = b[j + 1] /\ t[j] \in Nat \ {0}
    BY <1>0, WordSize DEF Holds
<1>1. \A j : j \in J <=> j \in 0 .. NAME - 1 /\ (s[j] = 0 \/ s[j] # t[j])
    BY <1>0 DEF Holds
<1> HIDE DEF J
<1>2. J \subseteq Nat /\ Size(a) \in J
    BY <1>0, <1>1, <1>a
<1>3. PICK m \in J : \A j \in J : m <= j
    BY <1>2, Least
<1>4. strcmp(s, t) = s[m] - t[m]
    <2>1. Min(J) = m
        BY <1>2, <1>3, MinIs
    <2> QED
        BY <2>1 DEF strcmp, J
<1>5. m \in Nat /\ m <= Size(a) /\ (s[m] = 0 \/ s[m] # t[m])
    BY <1>1, <1>2, <1>3
<1>6. ASSUME NEW j \in 0 .. m - 1 PROVE s[j] # 0 /\ s[j] = t[j]
    <2>1. j \notin J /\ j \in 0 .. NAME - 1
        BY <1>0, <1>2, <1>3, <1>5, <1>a
    <2> QED
        BY <1>1, <2>1
<1>7. m <= Size(b)
    <2> SUFFICES ASSUME Size(b) < m PROVE FALSE
        BY <1>5, <1>b
    <2>1. Size(b) \in 0 .. m - 1
        BY <1>5, <1>b
    <2> QED
        BY <1>6, <1>b, <2>1
<1>8. s[m] \in Nat /\ t[m] \in Nat
    BY <1>5, <1>7, <1>a, <1>b
<1>9. ASSUME a = b PROVE s[m] = t[m]
    BY <1>5, <1>9, <1>a, <1>b
<1>10. ASSUME s[m] = t[m] PROVE a = b
    <2>1. m = Size(a) /\ m = Size(b)
        BY <1>5, <1>7, <1>10, <1>a, <1>b
    <2>2. ASSUME NEW k \in 1 .. m PROVE a[k] = b[k]
        <3>1. k - 1 \in 0 .. m - 1 /\ (k - 1) + 1 = k
            BY <1>5
        <3>2. s[k - 1] = t[k - 1]
            BY <1>6, <3>1
        <3> QED
            BY <1>a, <1>b, <2>1, <3>1, <3>2
    <2> QED
        BY <2>1, <2>2, SameWord
<1> QED
    BY <1>4, <1>8, <1>9, <1>10

-----------------------------------------------------------------------------
(* What the packer has put into the image.                                 *)
Packed(i) == Dump(rootfs[i + 1])

LEMMA Headers ==
  ASSUME TypeOK, NEW i \in Index
  PROVE  /\ image.headers[i].file_length = Len(Packed(i))
         /\ image.headers[i].starting_offset = DataStart + (IF i = 0 THEN 0 ELSE Len(Packed(0)))
         /\ image.headers[i].file_name = Named(FileName[i + 1])
         /\ image.data = Packed(0) \o Packed(1)
<1>1. image = make_initrd(rootfs)
    BY DEF TypeOK
<1>2. image.headers = [j \in Index |->
     [file_length     |-> getFileSize(rootfs[j + 1]),
      starting_offset |-> DataStart + (IF j = 0 THEN 0 ELSE getFileSize(rootfs[1])),
      file_name       |-> Named(FileName[j + 1])]]
    BY <1>1 DEF make_initrd
<1>3. image.data = Packed(0) \o Packed(1)
    <2>1. image.data = Dump(rootfs[1]) \o Dump(rootfs[2])
        BY <1>1 DEF make_initrd
    <2> QED
        BY <2>1 DEF Packed
<1> QED
    BY <1>2, <1>3 DEF getFileSize, Packed

LEMMA PackedType ==
  ASSUME TypeOK
  PROVE  /\ \A i \in Index : Packed(i) \in Content /\ Packed(i) \in Seq(Nat)
         /\ DataStart \in Nat /\ DataStart + Len(Packed(0)) + Len(Packed(1)) + BUFFER < WORD
<1>1. \A f \in File : rootfs[f] \in Content \union {Missing}
    BY DEF TypeOK
<1>2. \A i \in Index : i + 1 \in File
    BY DEF Index, File
<1>3. \A i \in Index : Packed(i) \in Content
    BY <1>1, <1>2, RamDiskAssumption DEF Packed, Dump
<1>4. \A i \in Index : Packed(i) \in Seq(Nat)
    BY <1>3, RamDiskAssumption
<1>5. DataStart = MAIN_HEADER + 2 * FILE_HEADER
    BY DEF DataStart
<1>6. \A i \in Index : Len(Packed(i)) \in Nat /\ DataStart + 2 * Len(Packed(i)) + BUFFER < WORD
    BY <1>3, <1>4, <1>5, RamDiskAssumption
<1>7. 0 \in Index /\ 1 \in Index
    BY DEF Index
<1>8. \A d, m, n, b, w \in Nat : d + 2 * m + b < w /\ d + 2 * n + b < w => d + m + n + b < w
    OBVIOUS
<1> QED
    BY <1>3, <1>4, <1>5, <1>6, <1>7, <1>8, RamDiskAssumption

LEMMA NodeFields ==
  ASSUME TypeOK, NEW i \in Index
  PROVE  Holds(FileNode(i).name, FileName[i + 1]) /\ FileNode(i).inode = i
<1> DEFINE h == image.headers[i]
           name == strncpy(UnusedNode.name, h.file_name, NAME - 1)
           w == FileName[i + 1]
<1>1. FileNode(i).inode = i
    BY DEF FileNode
<1>2. FileNode(i).name = [name EXCEPT ![NAME - 1] = Nul]
    BY DEF FileNode
<1>3. h.file_name = Named(w)
    BY Headers
<1>4. Word(w) /\ NAME \in Nat /\ Size(w) \in Nat /\ Size(w) < NAME
    BY Words, WordSize
<1>5. Holds(Named(w), w)
    BY <1>4, NamedHolds
<1>6. UnusedNode.name = Named(<<>>)
    BY DEF UnusedNode
<1>7. DOMAIN UnusedNode.name = 0 .. NAME - 1
    BY <1>6 DEF Named
<1> DEFINE s == Named(w)
<1>8. name = [j \in 0 .. NAME - 1 |-> IF j >= NAME - 1 THEN UnusedNode.name[j]
               ELSE IF \E k \in 0 .. j : s[k] = Nul THEN Nul ELSE s[j]]
    BY <1>3, <1>7 DEF strncpy
<1> HIDE DEF name, s
<1>9. DOMAIN FileNode(i).name = 0 .. NAME - 1 /\ FileNode(i).name[NAME - 1] = Nul
    BY <1>2, <1>4, <1>8
<1>10. \A j \in 0 .. NAME - 2 : FileNode(i).name[j] =
         IF \E k \in 0 .. j : s[k] = Nul THEN Nul ELSE s[j]
    BY <1>2, <1>4, <1>8
<1>11. /\ \A k \in 0 .. Size(w) - 1 : s[k] = w[k + 1] /\ s[k] # Nul
       /\ s[Size(w)] = Nul
    BY <1>4, <1>5, WordSize DEF s, Holds
<1>12. \A j \in 0 .. Size(w) - 1 : FileNode(i).name[j] = w[j + 1]
    BY <1>4, <1>10, <1>11
<1>13. FileNode(i).name[Size(w)] = Nul
    <2>1. CASE Size(w) = NAME - 1
        BY <1>9, <2>1
    <2>2. CASE Size(w) # NAME - 1
        <3>1. Size(w) \in 0 .. NAME - 2 /\ Size(w) \in 0 .. Size(w)
            BY <1>4, <2>2
        <3> QED
            BY <1>10, <1>11, <3>1
    <2> QED
        BY <2>1, <2>2
<1> QED
    BY <1>1, <1>9, <1>12, <1>13 DEF Holds

-----------------------------------------------------------------------------
(* What the calls answer on a mounted disk.                                *)
Mounted == TypeOK /\ initrd_num_files = 2 /\ \A i \in Index : initrd_file_nodes[i] = FileNode(i)

LEMMA Bytes ==
  ASSUME TypeOK, NEW i \in Index, NEW n \in Nat, n < Len(Packed(i))
  PROVE  ByteAt(image.headers[i].starting_offset + n) = Packed(i)[n + 1]
<1> DEFINE a == Packed(0)
           b == Packed(1)
           start == image.headers[i].starting_offset
<1>1. /\ a \in Seq(Nat) /\ b \in Seq(Nat) /\ DataStart \in Nat /\ WORD \in Nat
      /\ DataStart + Len(a) + Len(b) < WORD /\ Len(a) \in Nat /\ Len(b) \in Nat
    <2>1. 0 \in Index /\ 1 \in Index
        BY DEF Index
    <2>2. a \in Seq(Nat) /\ b \in Seq(Nat) /\ Len(a) \in Nat /\ Len(b) \in Nat
        BY <2>1, PackedType
    <2>3. DataStart \in Nat /\ DataStart + Len(a) + Len(b) + BUFFER < WORD
        BY PackedType
    <2>4. WORD \in Nat /\ BUFFER \in Nat
        BY RamDiskAssumption
    <2> HIDE DEF a, b
    <2> QED
        BY <2>2, <2>3, <2>4
<1>2. image.data = a \o b /\ start = DataStart + (IF i = 0 THEN 0 ELSE Len(a))
    BY Headers
<1> HIDE DEF a, b, start
<1>3. ASSUME NEW m \in Nat, m < Len(a) + Len(b) PROVE ByteAt(DataStart + m) = (a \o b)[m + 1]
    <2>1. (DataStart + m) % WORD = DataStart + m
        <3>1. DataStart + m \in Nat /\ DataStart + m < WORD
            BY <1>1, <1>3
        <3> QED
            BY <1>1, <3>1, NoWrap
    <2>2. m + 1 \in DOMAIN (a \o b)
        <3>1. DOMAIN (a \o b) = 1 .. Len(a) + Len(b)
            BY <1>1
        <3> QED
            BY <1>1, <1>3, <3>1
    <2>3. ((DataStart + m) % WORD) - DataStart + 1 = m + 1
        BY <1>1, <2>1
    <2> QED
        BY <1>2, <2>2, <2>3 DEF ByteAt
<1>4. CASE i = 0
    <2>1. start + n = DataStart + n /\ n < Len(a) + Len(b)
        BY <1>1, <1>2, <1>4 DEF a
    <2>2. (a \o b)[n + 1] = a[n + 1]
        BY <1>1, <1>4 DEF a
    <2> QED
        BY <1>3, <1>4, <2>1, <2>2 DEF a, start
<1>5. CASE i = 1
    <2>1. start + n = DataStart + (Len(a) + n) /\ Len(a) + n \in Nat /\ Len(a) + n < Len(a) + Len(b)
        BY <1>1, <1>2, <1>5 DEF b
    <2>2. (a \o b)[(Len(a) + n) + 1] = b[n + 1]
        BY <1>1, <1>5 DEF b
    <2> QED
        BY <1>3, <1>5, <2>1, <2>2 DEF b, start
<1> QED
    BY <1>4, <1>5 DEF Index

(* initrd_read gives a part of the packed file.                            *)
LEMMA ReadPart ==
  ASSUME Mounted, NEW i \in Index, NEW offset \in Nat, NEW size \in Nat, offset + size < WORD
  PROVE  LET have == Len(Packed(i)) IN
         initrd_read(i, offset, size) =
           SubSeq(Packed(i), offset + 1, IF offset + size > have THEN have ELSE offset + size)
<1> DEFINE s == Packed(i)
           have == Len(s)
           last == IF offset + size > have THEN have ELSE offset + size
           n == ReadSize(have, offset, size)
<1>1. s \in Seq(Nat) /\ have \in Nat /\ WORD \in Nat
    BY PackedType, RamDiskAssumption DEF Mounted
<1>2. n \in Nat /\ (n > 0 => last = offset + n /\ last <= have) /\ (n = 0 => last <= offset)
    <2>1. (offset + size) % WORD = offset + size
        <3>1. offset + size \in Nat
            OBVIOUS
        <3> QED
            BY <1>1, <3>1, NoWrap
    <2> HIDE DEF s
    <2> QED
        BY <1>1, <2>1 DEF ReadSize
<1>3. initrd_read(i, offset, size) =
        [k \in 1 .. n |-> ByteAt(image.headers[i].starting_offset + offset + k - 1)]
    <2>1. initrd_file_nodes[i].inode = i /\ image.headers[i].file_length = have
        BY NodeFields, Headers DEF Mounted
    <2> QED
        BY <2>1 DEF initrd_read
<1>4. ASSUME NEW k \in 1 .. n
      PROVE  ByteAt(image.headers[i].starting_offset + offset + k - 1) = s[offset + k]
    <2>1. offset + k - 1 \in Nat /\ offset + k - 1 < have /\ (offset + k - 1) + 1 = offset + k
        BY <1>1, <1>2
    <2>2. ByteAt(image.headers[i].starting_offset + (offset + k - 1)) = s[offset + k]
        BY <2>1, Bytes DEF Mounted
    <2>3. image.headers[i].starting_offset \in Int
        <3>1. /\ DataStart \in Nat /\ Len(Packed(0)) \in Nat
              /\ image.headers[i].starting_offset = DataStart + IF i = 0 THEN 0 ELSE Len(Packed(0))
            BY Headers, PackedType DEF Mounted
        <3> QED
            BY <3>1
    <2>4. image.headers[i].starting_offset + (offset + k - 1)
            = image.headers[i].starting_offset + offset + k - 1
        BY <2>3
    <2> QED
        BY <2>2, <2>4
<1>5. SubSeq(s, offset + 1, last) = [k \in 1 .. n |-> s[offset + k]]
    <2> HIDE DEF s
    <2> QED
        BY <1>1, <1>2
<1> QED
    BY <1>3, <1>4, <1>5

(* cat's buffer, and what printf shows of it.                              *)
Buffer(bytes) ==
  [i \in 0 .. BUFFER - 1 |->
     IF i < Len(bytes) THEN bytes[i + 1] ELSE IF i = Len(bytes) THEN Nul ELSE Junk]

LEMMA Printed ==
  ASSUME NEW s \in Seq(Nat), Len(s) < BUFFER
  PROVE  Text(Buffer(s)) = UpToZero(s)
<1> DEFINE K == {k \in 0 .. Size(s) : k = Size(s) \/ s[k + 1] = Nul}
           t == Buffer(s)
           S == {i \in DOMAIN t : t[i] = Nul}
<1>1. BUFFER \in Nat /\ Size(s) \in Nat /\ Size(s) < BUFFER
    BY RamDiskAssumption DEF Size
<1>b. t = [i \in 0 .. BUFFER - 1 |-> IF i < Size(s) THEN s[i + 1]
                                    ELSE IF i = Size(s) THEN Nul ELSE Junk]
    BY Zenon DEF Buffer, Size
<1> HIDE DEF t
<1>2. /\ DOMAIN t = 0 .. BUFFER - 1 /\ t[Size(s)] = Nul
      /\ \A i \in 0 .. Size(s) - 1 : t[i] = s[i + 1]
    BY <1>1, <1>b
<1>3. K \subseteq Nat /\ Size(s) \in K
    BY <1>1
<1>4. PICK n \in K : \A k \in K : n <= k
    <2> HIDE DEF K
    <2> QED
        BY <1>3, Least
<1>5. Min(K) = n /\ n \in Nat /\ n <= Size(s)
    <2>1. Min(K) = n
        <3> HIDE DEF K
        <3> QED
            BY <1>3, <1>4, MinIs
    <2> QED
        BY <1>1, <2>1
<1>6. n \in S
    BY <1>1, <1>2, <1>5
<1>7. S \in SUBSET Nat /\ \A i \in S : n <= i
    <2>1. S \in SUBSET Nat
        BY <1>1, <1>2
    <2>2. ASSUME NEW i \in S, i < n PROVE FALSE
        <3>1. i \in 0 .. Size(s) - 1 /\ t[i] = Nul
            BY <1>1, <1>5, <2>1, <2>2
        <3>2. i \in K
            BY <1>1, <1>2, <3>1
        <3> QED
            BY <1>4, <1>5, <2>1, <2>2, <3>2
    <2> QED
        BY <1>5, <2>1, <2>2
<1>8. End(t) = n
    <2>1. Min(S) = n
        <3> HIDE DEF S
        <3> QED
            BY <1>6, <1>7, MinIs
    <2> QED
        BY <2>1 DEF End
<1>9. Text(t) = [k \in 1 .. n |-> s[k]]
    <2>1. \A k \in 1 .. n : t[k - 1] = s[k]
        BY <1>1, <1>2, <1>5
    <2> QED
        BY <1>8, <2>1 DEF Text
<1>10. UpToZero(s) = SubSeq(s, 1, n)
    <2>1. UpToZero(s) = SubSeq(s, 1, Min(K))
        BY Zenon DEF UpToZero, Size
    <2> QED
        BY <1>5, <2>1, Zenon
<1>11. SubSeq(s, 1, n) = [k \in 1 .. n |-> s[k]]
    <2> HIDE DEF K
    <2> QED
        BY <1>1, <1>5 DEF Size
<1> QED
    BY <1>9, <1>10, <1>11 DEF t

(* initrd_finddir: the names are different, so at most one node has it.    *)
LEMMA Found ==
  ASSUME Mounted, NEW name \in Typed
  PROVE  \/ initrd_finddir(Named(name)) = NULL /\ \A f \in File : FileName[f] # name
         \/ \E i \in Index : initrd_finddir(Named(name)) = i /\ FileName[i + 1] = name
<1> DEFINE found == {i \in 0 .. initrd_num_files - 1 : strcmp(Named(name), initrd_file_nodes[i].name) = 0}
<1>1. 0 .. initrd_num_files - 1 = Index
    BY DEF Mounted, Index
<1>2. Word(name) /\ \A i \in Index : Word(FileName[i + 1])
    BY Words
<1>3. ASSUME NEW i \in Index PROVE i \in found <=> FileName[i + 1] = name
    <2>1. Holds(Named(name), name) /\ Holds(initrd_file_nodes[i].name, FileName[i + 1])
        BY <1>2, NamedHolds, NodeFields DEF Mounted
    <2>2. strcmp(Named(name), initrd_file_nodes[i].name) = 0 <=> name = FileName[i + 1]
        BY <1>2, <2>1, Compared
    <2> QED
        BY <1>1, <2>2
<1>4. found \subseteq Index
    BY <1>1
<1>5. initrd_finddir(Named(name)) = IF found = {} THEN NULL ELSE Min(found)
    BY DEF initrd_finddir
<1> HIDE DEF found
<1>6. CASE found = {}
    <2>1. \A f \in File : f - 1 \in Index /\ (f - 1) + 1 = f
        BY DEF File, Index
    <2> QED
        BY <1>3, <1>5, <1>6, <2>1
<1>7. CASE found # {}
    <2>1. PICK i \in Index : i \in found
        BY <1>4, <1>7
    <2>2. ASSUME NEW j \in found PROVE j = i
        <3>1. j \in Index /\ FileName[j + 1] = FileName[i + 1]
            BY <1>3, <1>4, <2>1
        <3>2. FileName[1] # FileName[2]
            BY RamDiskAssumption
        <3> QED
            BY <2>1, <3>1, <3>2 DEF Index
    <2>3. found \in SUBSET Nat /\ \A j \in found : i <= j
        BY <1>4, <2>1, <2>2 DEF Index
    <2>4. Min(found) = i
        BY <2>1, <2>3, MinIs
    <2> QED
        BY <1>3, <1>5, <1>7, <2>1, <2>4
<1> QED
    BY <1>6, <1>7

(* ls lists the packed names, and stops behind the last.                   *)
LEMMA Listed ==
  ASSUME Mounted
  PROVE  [k \in 1 .. Min({n \in 0 .. 2 : initrd_readdir(n) = NULL}) |->
            Text(initrd_readdir(k - 1))] = FileName
<1>1. ASSUME NEW i \in Index
      PROVE  initrd_readdir(i) # NULL /\ Text(initrd_readdir(i)) = FileName[i + 1]
    <2> DEFINE copy == strcpy([j \in 0 .. NAME - 1 |-> Junk], initrd_file_nodes[i].name)
    <2>1. initrd_readdir(i) = copy
        BY DEF initrd_readdir, Mounted, Index
    <2>2. Word(FileName[i + 1])
        BY Words
    <2>3. Holds(initrd_file_nodes[i].name, FileName[i + 1])
        BY NodeFields DEF Mounted
    <2>4. copy # NULL /\ Holds(copy, FileName[i + 1])
        BY <2>2, <2>3, CopyHolds
    <2> QED
        BY <2>1, <2>2, <2>4, HeldText
<1>2. initrd_readdir(2) = NULL
    BY DEF initrd_readdir, Mounted
<1> DEFINE N == {n \in 0 .. 2 : initrd_readdir(n) = NULL}
<1>3. N \in SUBSET Nat /\ 2 \in N /\ \A n \in N : 2 <= n
    BY <1>1, <1>2 DEF Index
<1>4. Min(N) = 2
    <2> HIDE DEF N
    <2> QED
        BY <1>3, MinIs
<1>5. \A k \in 1 .. 2 : Text(initrd_readdir(k - 1)) = FileName[k]
    BY <1>1 DEF Index
<1>6. FileName = [k \in 1 .. 2 |-> FileName[k]]
    BY RamDiskAssumption DEF File
<1> QED
    BY <1>4, <1>5, <1>6

-----------------------------------------------------------------------------
(* The refinement: kmain's steps are one step of the store or none, and    *)
(* every command and call gives the store's answer.                        *)
LEMMA SameFiles == DOMAIN FileName = File
BY RamDiskAssumption

LEMMA SameContents ==
  ASSUME UNCHANGED rootfs
  PROVE  UNCHANGED [f \in File |-> Dump(rootfs[f])]
OBVIOUS

LEMMA StoreInit == Init => Store!Init
<1> SUFFICES ASSUME Init PROVE Store!Init
    OBVIOUS
<1>1. \A f \in File : Dump(rootfs[f]) \in Content
    BY RamDiskAssumption DEF Init, Dump
<1> QED
    BY <1>1, SameFiles DEF Init, Store!Init, Store!Files

LEMMA StoreMount ==
  ASSUME IInv, FindModule \/ MakeRoot \/ MakeNodes \/ FillNode \/ Publish
  PROVE  Store!Mount \/ UNCHANGED Store!vars
<1>1. UNCHANGED <<rootfs, answer>>
    BY DEF FindModule, MakeRoot, MakeNodes, FillNode, Publish, disk
<1>2. CASE Publish
    <2>1. fs_root = NULL
        BY <1>2 DEF Publish, IInv
    <2> QED
        BY <1>1, <2>1 DEF Store!Mount, Store!vars
<1>3. CASE ~ Publish
    BY <1>1, <1>3 DEF FindModule, MakeRoot, MakeNodes, FillNode, Store!vars
<1> QED
    BY <1>2, <1>3

LEMMA WhenMounted == ASSUME IInv, fs_root # NULL PROVE Mounted
BY DEF IInv, MountedWhole, Mounted

LEMMA StillThere ==
  ASSUME Quiet
  PROVE  /\ UNCHANGED [f \in File |-> Dump(rootfs[f])]
         /\ (fs_root # NULL)' = (fs_root # NULL)
BY DEF Quiet, disk

LEMMA StoreList == ASSUME IInv, ls PROVE Store!List
<1>1. answer' = IF fs_root # NULL THEN <<"list", FileName>> ELSE <<"unmounted">>
    BY WhenMounted, Listed DEF ls
<1> QED
    BY <1>1, StillThere DEF ls, Store!List

LEMMA StoreShow ==
  ASSUME IInv, NEW name \in Typed, cat(Named(name)) PROVE Store!Show(name)
<1> DEFINE node == initrd_finddir(Named(name))
           bytes == initrd_read(node, 0, BUFFER - 1)
<1>1. answer' = CASE fs_root = NULL -> Silence
                  [] fs_root # NULL /\ node = NULL -> <<"missing", Text(Named(name))>>
                  [] OTHER -> <<"text", Text(Buffer(bytes))>>
    BY DEF cat, Buffer
<1>2. Quiet
    BY DEF cat
<1>3. CASE fs_root = NULL
    BY <1>1, <1>2, <1>3, StillThere DEF Store!Show
<1>4. CASE fs_root # NULL /\ node = NULL
    <2>1. Mounted
        BY <1>4, WhenMounted
    <2>2. \A i \in Index : i # NULL
        BY RamDiskAssumption DEF Index
    <2>3. \A f \in File : FileName[f] # name
        BY <1>4, <2>1, <2>2, Found
    <2>4. Text(Named(name)) = name
        BY NamedHolds, HeldText, Words
    <2>5. answer' = <<"missing", name>>
        BY <1>1, <1>4, <2>4
    <2> QED
        BY <1>2, <1>4, <2>3, <2>5, StillThere, SameFiles DEF Store!Show, Store!Files
<1>5. CASE fs_root # NULL /\ node # NULL
    <2>1. Mounted
        BY <1>5, WhenMounted
    <2>2. PICK i \in Index : node = i /\ FileName[i + 1] = name
        BY <1>5, <2>1, Found
    <2> DEFINE s == Packed(i)
               have == Len(s)
               last == IF have < BUFFER THEN have ELSE BUFFER - 1
    <2>3. s \in Seq(Nat) /\ have \in Nat /\ BUFFER \in Nat \ {0} /\ BUFFER < WORD
        <3>1. /\ DataStart \in Nat /\ DataStart + Len(Packed(0)) + Len(Packed(1)) + BUFFER < WORD
              /\ Packed(0) \in Seq(Nat) /\ Packed(1) \in Seq(Nat) /\ Packed(i) \in Seq(Nat)
            BY <2>1, PackedType DEF Mounted, Index
        <3> QED
            BY <3>1, RamDiskAssumption
    <2>4. bytes = SubSeq(s, 1, last)
        <3>1. 0 + (BUFFER - 1) < WORD /\ BUFFER - 1 \in Nat
            <4>1. BUFFER \in Nat \ {0} /\ WORD \in Nat /\ BUFFER < WORD
                BY <2>3, RamDiskAssumption
            <4> QED
                BY <4>1
        <3>2. bytes = SubSeq(s, 0 + 1, IF 0 + (BUFFER - 1) > have THEN have ELSE 0 + (BUFFER - 1))
            BY <2>1, <2>2, <3>1, ReadPart
        <3>3. last = IF 0 + (BUFFER - 1) > have THEN have ELSE 0 + (BUFFER - 1)
            BY <2>3
        <3> QED
            BY <3>2, <3>3
    <2>5. Text(Buffer(bytes)) = Shown(s)
        <3>1. SubSeq(s, 1, last) \in Seq(Nat) /\ Len(SubSeq(s, 1, last)) < BUFFER
            BY <2>3
        <3>2. Text(Buffer(SubSeq(s, 1, last))) = UpToZero(SubSeq(s, 1, last))
            BY <3>1, Printed
        <3> QED
            BY <2>4, <3>2 DEF Shown
    <2>6. answer' = <<"text", Shown(Dump(rootfs[i + 1]))>>
        BY <1>1, <1>5, <2>5 DEF Packed
    <2>7. /\ i + 1 \in File
          /\ (CHOOSE f \in File : FileName[f] = name /\ \A g \in File : FileName[g] = name => f <= g)
               = i + 1
        <3>1. i + 1 \in File /\ \A f \in File : FileName[f] = name <=> f = i + 1
            BY <2>2, RamDiskAssumption DEF Index, File
        <3> DEFINE first(f) == FileName[f] = name /\ \A g \in File : FileName[g] = name => f <= g
        <3>2. \A f \in File : first(f) <=> f = i + 1
            <4>1. i + 1 <= i + 1
                BY DEF Index
            <4> QED
                BY <3>1, <4>1
        <3> HIDE DEF first
        <3>3. (CHOOSE f \in File : first(f)) = i + 1
            <4>1. \E f \in File : first(f)
                BY <3>1, <3>2, Zenon
            <4>2. /\ (CHOOSE f \in File : first(f)) \in File
                  /\ first(CHOOSE f \in File : first(f))
                BY <4>1, Zenon
            <4> QED
                BY <3>2, <4>2, Zenon
        <3> QED
            BY <3>1, <3>3 DEF first
    <2>8. Store!Show(name) <=>
            /\ answer' = <<"text", Shown([f \in File |-> Dump(rootfs[f])][i + 1])>>
            /\ UNCHANGED <<[f \in File |-> Dump(rootfs[f])], fs_root # NULL>>
        BY <1>5, <2>2, <2>7, SameFiles DEF Store!Show, Store!Files
    <2> QED
        BY <1>2, <2>6, <2>7, <2>8, StillThere
<1> QED
    BY <1>3, <1>4, <1>5

(* The requests whose offset and size do not wrap: see RamDiskWrap.        *)
RequestsFit == \A r \in Request : r[1] \in Nat /\ r[2] \in Nat /\ r[1] + r[2] < WORD

LEMMA StoreRead ==
  ASSUME RequestsFit, IInv, NEW i \in Index, NEW r \in Request, read_fs(i, r[1], r[2])
  PROVE  i + 1 \in File /\ Store!Read(i + 1, r[1], r[2])
<1>1. fs_root # NULL /\ answer' = <<"bytes", initrd_read(i, r[1], r[2])>> /\ Quiet
    BY DEF read_fs
<1>2. Mounted /\ i + 1 \in File
    BY <1>1, WhenMounted DEF Index, File
<1>3. initrd_read(i, r[1], r[2]) =
        SubSeq(Packed(i), r[1] + 1,
               IF r[1] + r[2] > Len(Packed(i)) THEN Len(Packed(i)) ELSE r[1] + r[2])
    BY <1>2, ReadPart DEF RequestsFit
<1>4. [f \in File |-> Dump(rootfs[f])][i + 1] = Packed(i)
    BY <1>2 DEF Packed
<1> QED
    BY <1>1, <1>2, <1>3, <1>4, StillThere DEF Store!Read

LEMMA StoreStep ==
  ASSUME RequestsFit, IInv, [Next]_vars
  PROVE  Store!Next \/ UNCHANGED Store!vars
<1>1. CASE FindModule \/ MakeRoot \/ MakeNodes \/ FillNode \/ Publish
    BY <1>1, StoreMount DEF Store!Next
<1>2. CASE ls
    BY <1>2, StoreList DEF Store!Next
<1>3. ASSUME NEW name \in Typed, cat(Named(name)) PROVE Store!Next
    BY <1>3, StoreShow DEF Store!Next
<1>4. ASSUME NEW i \in Index, NEW r \in Request, read_fs(i, r[1], r[2]) PROVE Store!Next
    BY <1>4, StoreRead, SameFiles DEF Store!Next, Store!Files
<1>5. ASSUME NEW call \in Calls, CallNotProvided(call) PROVE Store!Next
    <2>1. fs_root # NULL /\ answer' = Silence /\ Quiet
        BY <1>5 DEF CallNotProvided
    <2> QED
        BY <2>1, StillThere DEF Store!Next, Store!Refuse
<1>6. CASE UNCHANGED vars
    BY <1>6 DEF vars, disk, Store!vars
<1> QED
    BY <1>1, <1>2, <1>3, <1>4, <1>5, <1>6 DEF Next

(* Packer, mount, ls, cat and read_fs are the file store, for all names,   *)
(* contents and buffers, as long as no request wraps.                      *)
THEOREM Refinement == ASSUME RequestsFit PROVE Spec => ImplementsStore
<1>1. IInv /\ [Next]_vars => [Store!Next]_(Store!vars)
    BY StoreStep
<1> QED
    BY StoreInit, Invariance, <1>1, PTL DEF Spec, ImplementsStore, Store!Spec
=============================================================================
