------------------------------ MODULE RamDisk -------------------------------
(***************************************************************************)
(* The RAM disk from the packer to the shell: make_initrd.c packs two      *)
(* files into an image; kmain finds it as GRUB's module and mounts it,     *)
(* store by store (initrd.c); ls and cat of the shell (terminal.c) and the *)
(* calls of fs.c read it.  The shell runs in the keyboard interrupt, so a  *)
(* command may come between any two steps of the mount, and is one step.   *)
(*                                                                         *)
(* An address is counted from the start of the module.  Of the image, the  *)
(* headers are kept as records and everything behind them as characters.   *)
(***************************************************************************)
EXTENDS Strings, Sequences

CONSTANTS
  NAME,         (* Bytes of a name: 128.                                   *)
  MAIN_HEADER, FILE_HEADER,   (* sizeof: 4 and 140, for packer and kernel. *)
  BUFFER,       (* cat's buffer: 256.                                      *)
  WORD,         (* Unsigned integers count modulo 2^32.                    *)
  FileName,     (* The names packed: "hello.txt" and "test.txt".           *)
  Content,      (* What a packed file can contain.                         *)
  Missing,      (* There is no such file in rootfs.                        *)
  Typed,        (* The names a user may type after cat.                    *)
  Request,      (* The offsets and sizes a caller of read_fs may give.     *)
  Junk,         (* What uninitialised memory holds: some character.        *)
  NULL, Silence

File  == {1, 2}
Index == {0, 1}

(* The packer's strcpy does not look at the size of file_name.             *)
ASSUME RamDiskAssumption ==
  /\ NAME \in Nat /\ MAIN_HEADER \in Nat /\ FILE_HEADER \in Nat /\ WORD \in Nat
  /\ BUFFER \in Nat \ {0}
  /\ FileName \in [File -> Seq(Nat \ {Nul})] /\ FileName[1] # FileName[2]
  /\ \A f \in File : Len(FileName[f]) < NAME
  /\ Content \subseteq Seq(Nat) /\ Missing \notin Content /\ <<>> \in Content
  /\ \A s \in Content : MAIN_HEADER + 2 * FILE_HEADER + 2 * Len(s) + BUFFER < WORD
  /\ \A name \in Typed : name \in Seq(Nat \ {Nul}) /\ Len(name) < NAME
  /\ NULL \notin Nat \union [0 .. NAME - 1 -> Nat \union {Junk}]

VARIABLES
  rootfs,              (* The packer's input.                              *)
  image,               (* initrd.img.                                      *)
  module,              (* GRUB has loaded it: mods_count > 0.              *)
  phase,               (* Where kmain is.                                  *)
  initrd_num_files, initrd_root, initrd_file_nodes,
  fs_root,
  answer               (* What the last command or call brought.           *)

disk == <<rootfs, image, module>>
vars == <<disk, phase, initrd_num_files, initrd_root, initrd_file_nodes, fs_root, answer>>

(* A name of the given characters in an array of junk, as strcpy leaves it *)
(* and as the user's line holds it.                                        *)
Named(text) ==
  [i \in 0 .. NAME - 1 |-> IF i < Len(text) THEN text[i + 1]
                           ELSE IF i = Len(text) THEN Nul ELSE Junk]

-----------------------------------------------------------------------------
(* make_initrd: a file that cannot be opened has no bytes.                 *)
Dump(file)        == IF file = Missing THEN <<>> ELSE file
getFileSize(file) == Len(Dump(file))

DataStart == MAIN_HEADER + 2 * FILE_HEADER

(* Mutant: the second file starts where the first one does.                *)
OffsetNotAdvanced(files) ==
  [num_of_files |-> 2,
   headers |-> [i \in Index |->
     [file_length     |-> getFileSize(files[i + 1]),
      starting_offset |-> DataStart,
      file_name       |-> Named(FileName[i + 1])]],
   data |-> Dump(files[1]) \o Dump(files[2])]

make_initrd(files) ==
  [num_of_files |-> 2,
   headers |-> [i \in Index |->
     [file_length     |-> getFileSize(files[i + 1]),
      starting_offset |-> DataStart + (IF i = 0 THEN 0 ELSE getFileSize(files[1])),
      file_name       |-> Named(FileName[i + 1])]],
   data |-> Dump(files[1]) \o Dump(files[2])]

ByteAt(address) ==
  LET k == (address % WORD) - DataStart + 1 IN
  IF k \in DOMAIN image.data THEN image.data[k] ELSE Junk

Init ==
  /\ rootfs \in [File -> Content \union {Missing}]
  /\ image = make_initrd(rootfs)
  /\ module \in BOOLEAN
  /\ phase = "unlocked"
  /\ initrd_num_files = 0
  /\ initrd_root = NULL
  /\ initrd_file_nodes = NULL
  /\ fs_root = NULL
  /\ answer = Silence

-----------------------------------------------------------------------------
(* kmain and initialize_initrd.  The root's own name is never asked for.   *)
RootNode == [name |-> Named(<<>>), length |-> 0, inode |-> 0, calls |-> {"readdir", "finddir"}]

UnusedNode == [name |-> Named(<<>>), length |-> Junk, inode |-> Junk, calls |-> {}]

FileNode(i) ==
  LET header == image.headers[i]
      name   == strncpy(UnusedNode.name, header.file_name, NAME - 1)
  IN [name   |-> [name EXCEPT ![NAME - 1] = Nul],
      length |-> header.file_length,
      inode  |-> i,
      calls  |-> {"read"}]

(* The main header is read; without a module kmain goes on to the terminal.*)
FindModule ==
  /\ phase = "unlocked"
  /\ IF module THEN phase' = "root" /\ initrd_num_files' = image.num_of_files
               ELSE phase' = "terminal" /\ UNCHANGED initrd_num_files
  /\ UNCHANGED <<disk, initrd_root, initrd_file_nodes, fs_root, answer>>

(* malloc may fail; nobody looks.  Then the node is made at address 0, and *)
(* so are the others.                                                      *)
MakeRoot ==
  /\ phase = "root"
  /\ initrd_root' \in {NULL, RootNode}
  /\ phase' = "nodes"
  /\ UNCHANGED <<disk, initrd_num_files, initrd_file_nodes, fs_root, answer>>

(* Mutant: the last file gets no node.                                     *)
OneNodeShort ==
  /\ phase = "nodes"
  /\ initrd_file_nodes' = [i \in 0 .. initrd_num_files - 2 |-> UnusedNode]
  /\ phase' = "fill"
  /\ UNCHANGED <<disk, initrd_num_files, initrd_root, fs_root, answer>>

(* Both blocks fit the page that the first malloc has mapped.              *)
MakeNodes ==
  /\ phase = "nodes"
  /\ initrd_file_nodes' = [i \in 0 .. initrd_num_files - 1 |-> UnusedNode]
  /\ phase' = "fill"
  /\ UNCHANGED <<disk, initrd_num_files, initrd_root, fs_root, answer>>

(* One turn of the loop.                                                   *)
FillNode ==
  /\ phase = "fill"
  /\ \E i \in DOMAIN initrd_file_nodes :
       /\ initrd_file_nodes[i] = UnusedNode
       /\ \A j \in 0 .. i - 1 : initrd_file_nodes[j] # UnusedNode
       /\ initrd_file_nodes' = [initrd_file_nodes EXCEPT ![i] = FileNode(i)]
       /\ phase' = IF i = initrd_num_files - 1 THEN "mounted" ELSE "fill"
  /\ UNCHANGED <<disk, initrd_num_files, initrd_root, fs_root, answer>>

(* Mutant: the file system is published before it is filled.               *)
PublishEarly ==
  /\ phase \in {"fill", "mounted"}
  /\ fs_root' = initrd_root
  /\ phase' = IF phase = "mounted" THEN "terminal" ELSE phase
  /\ UNCHANGED <<disk, initrd_num_files, initrd_root, initrd_file_nodes, answer>>

(* initialize_initrd returns.                                              *)
Publish ==
  /\ phase = "mounted"
  /\ fs_root' = initrd_root
  /\ phase' = "terminal"
  /\ UNCHANGED <<disk, initrd_num_files, initrd_root, initrd_file_nodes, answer>>

-----------------------------------------------------------------------------
(* The functions behind the calls.  A file is given by its index.          *)

(* How much initrd_read copies.                                            *)
ReadSize(length, offset, size) ==
  IF offset > length THEN 0
  ELSE IF (offset + size) % WORD > length THEN length - offset ELSE size

initrd_read(i, offset, size) ==
  LET header == image.headers[initrd_file_nodes[i].inode] IN
  [k \in 1 .. ReadSize(header.file_length, offset, size) |->
     ByteAt(header.starting_offset + offset + k - 1)]

(* The name as it stands in the static dirent.                             *)
initrd_readdir(index) ==
  IF index >= initrd_num_files THEN NULL
  ELSE strcpy([i \in 0 .. NAME - 1 |-> Junk], initrd_file_nodes[index].name)

initrd_finddir(name) ==
  LET found == {i \in 0 .. initrd_num_files - 1 : strcmp(name, initrd_file_nodes[i].name) = 0}
  IN IF found = {} THEN NULL ELSE Min(found)

-----------------------------------------------------------------------------
(* The commands and the calls of fs.c.                                     *)
Quiet == UNCHANGED <<disk, phase, initrd_num_files, initrd_root, initrd_file_nodes, fs_root>>

ls ==
  /\ answer' = IF fs_root = NULL THEN <<"unmounted">>
               ELSE <<"list", [k \in 1 .. Min({n \in 0 .. 2 : initrd_readdir(n) = NULL}) |->
                                 Text(initrd_readdir(k - 1))]>>
  /\ Quiet

(* The first BUFFER - 1 characters are read, and printf gets them up to a  *)
(* zero.  Without a file system cat says nothing.                          *)
cat(name) ==
  LET node  == initrd_finddir(name)
      bytes == initrd_read(node, 0, BUFFER - 1) IN
  /\ answer' = CASE fs_root = NULL -> Silence
                 [] fs_root # NULL /\ node = NULL -> <<"missing", Text(name)>>
                 [] OTHER -> <<"text", Text([i \in 0 .. BUFFER - 1 |->
                      IF i < Len(bytes) THEN bytes[i + 1] ELSE IF i = Len(bytes) THEN Nul ELSE Junk])>>
  /\ Quiet

(* read_fs on a file.                                                      *)
read_fs(i, offset, size) ==
  /\ fs_root # NULL
  /\ "read" \in initrd_file_nodes[i].calls
  /\ answer' = <<"bytes", initrd_read(i, offset, size)>>
  /\ Quiet

(* The other calls of fs.c find no function in the node and return 0.      *)
CallNotProvided(call) ==
  /\ fs_root # NULL
  /\ \E node \in {fs_root, initrd_file_nodes[0], initrd_file_nodes[1]} : call \notin node.calls
  /\ answer' = Silence
  /\ Quiet

Calls == {"read", "write", "open", "close", "readdir", "finddir"}

Next ==
  \/ FindModule \/ MakeRoot \/ MakeNodes \/ FillNode \/ Publish
  \/ ls
  \/ \E name \in Typed : cat(Named(name))
  \/ \E i \in Index, r \in Request : read_fs(i, r[1], r[2])
  \/ \E call \in Calls : CallNotProvided(call)

Spec == Init /\ [][Next]_vars

-----------------------------------------------------------------------------
(* The state of the mount.                                                 *)
TypeOK ==
  /\ rootfs \in [File -> Content \union {Missing}]
  /\ image = make_initrd(rootfs)
  /\ module \in BOOLEAN
  /\ phase \in {"unlocked", "root", "nodes", "fill", "mounted", "terminal"}
  /\ initrd_num_files \in {0, 2}
  /\ initrd_root \in {NULL, RootNode}
  /\ initrd_file_nodes \in {NULL} \union [Index -> {UnusedNode} \union {FileNode(i) : i \in Index}]
  /\ fs_root \in {NULL, RootNode}

(* fs_root is only set (kmain.c:121) when every node has been filled from  *)
(* its own header: an ls or cat out of the keyboard interrupt never sees a *)
(* half-mounted disk.                                                      *)
MountedWhole ==
  fs_root # NULL =>
    /\ initrd_num_files = 2
    /\ \A i \in Index : initrd_file_nodes[i] = FileNode(i)

(* The promise.                                                            *)
UpToZero(s) ==
  SubSeq(s, 1, Min({k \in 0 .. Len(s) : k = Len(s) \/ s[k + 1] = Nul}))

Shown(s) == UpToZero(SubSeq(s, 1, IF Len(s) < BUFFER THEN Len(s) ELSE BUFFER - 1))

Store == INSTANCE FileStore WITH
  Names    <- FileName,
  contents <- [f \in File |-> Dump(rootfs[f])],
  mounted  <- fs_root # NULL

(* Packer and kernel together are a file store: whatever the files' sizes, *)
(* and when one is missing, ls and cat show the packed names and contents, *)
(* at every moment of the boot.                                            *)
ImplementsStore == Store!Spec

(* initrd.c:95: "Ensure we don't read beyond the end of the file", which   *)
(* initrd_read does by comparing offset + size with the file's length.     *)
ReadStaysInFile ==
  [][\A i \in Index, r \in Request :
       read_fs(i, r[1], r[2]) =>
         r[1] + Len(answer'[2]) <= image.headers[i].file_length \/ answer'[2] = <<>>]_vars

(* README.md:66: cat "reads a file from the VFS and dumps its payload to   *)
(* the screen": what it prints is the whole of the file that was packed.   *)
CatShowsPayload ==
  [][\A f \in File : cat(Named(FileName[f])) /\ fs_root # NULL =>
       answer' = <<"text", Dump(rootfs[f])>>]_vars
=============================================================================
