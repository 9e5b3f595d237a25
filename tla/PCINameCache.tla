---------------------------- MODULE PCINameCache ----------------------------
(***************************************************************************)
(* pciNameCache: the tables of PCI names, read again when a file changed,  *)
(* while a package manager replaces, removes and installs the files.       *)
(* refresh asks for the stamps of all files first and reads the files      *)
(* after that, one by one.                                                 *)
(*                                                                         *)
(* A version number is a content together with its size and modification   *)
(* time: a rewrite that keeps both is outside the model.                   *)
(***************************************************************************)
EXTENDS Naturals

CONSTANTS
  Paths,         \* pciIDsPaths
  MaxVersions    \* bound: the number of versions written

ASSUME CacheConstants == MaxVersions \in Nat

VARIABLES
  file,          \* the version at a path now, 0 for no file
  written,       \* the number of versions written so far
  stamps,        \* c.stamps: the version whose stamp was taken, 0 for none
  names,         \* c.names: the version every path has contributed, 0 for none
  newStamps, newNames,   \* of the refresh under way
  step,          \* what refresh does: "idle", "stat", "read"
  todo,          \* the paths left for this step
  failed         \* history: the paths whose last read failed with the file there

fileVars == <<file, written>>
cacheVars == <<stamps, names, newStamps, newNames, step, todo, failed>>
cacheSystemVars == <<fileVars, cacheVars>>

Empty == [p \in Paths |-> 0]

(* The package manager.                                                    *)
Write(p) ==
  /\ written < MaxVersions
  /\ written' = written + 1
  /\ file' = [file EXCEPT ![p] = written + 1]
  /\ UNCHANGED cacheVars

Delete(p) ==
  /\ file[p] # 0
  /\ file' = [file EXCEPT ![p] = 0]
  /\ UNCHANGED <<written, cacheVars>>

(* lookup calls refresh first.                                             *)
BeginRefresh ==
  /\ step = "idle"
  /\ step' = "stat" /\ todo' = Paths
  /\ newStamps' = Empty /\ newNames' = Empty
  /\ UNCHANGED <<fileVars, stamps, names, failed>>

(* statFileStamp.  It can fail where there is a file, for want of          *)
(* descriptors or permission.                                              *)
Stat(p, fails) ==
  /\ step = "stat" /\ p \in todo
  /\ newStamps' = [newStamps EXCEPT ![p] = IF fails THEN 0 ELSE file[p]]
  /\ todo' = todo \ {p}
  /\ UNCHANGED <<fileVars, stamps, names, newNames, step, failed>>

(* sameFileStamps.                                                         *)
Unchanged ==
  /\ step = "stat" /\ todo = {} /\ newStamps = stamps
  /\ step' = "idle"
  /\ UNCHANGED <<fileVars, stamps, names, newStamps, newNames, todo, failed>>

Changed ==
  /\ step = "stat" /\ todo = {} /\ newStamps # stamps
  /\ step' = "read" /\ todo' = Paths
  /\ UNCHANGED <<fileVars, stamps, names, newStamps, newNames, failed>>

(* os.ReadFile and parsePCINames.  A path that cannot be read is skipped.  *)
Read(p, fails) ==
  /\ step = "read" /\ p \in todo
  /\ newNames' = [newNames EXCEPT ![p] = IF fails THEN 0 ELSE file[p]]
  /\ failed' = IF fails /\ file[p] # 0 THEN failed \cup {p} ELSE failed \ {p}
  /\ todo' = todo \ {p}
  /\ UNCHANGED <<fileVars, stamps, names, newStamps, step>>

(* Slip: the stamps are taken again once the files are read.               *)
CommitFreshStamps ==
  /\ step = "read" /\ todo = {}
  /\ stamps' = file /\ names' = newNames
  /\ step' = "idle"
  /\ UNCHANGED <<fileVars, newStamps, newNames, todo, failed>>

Commit ==
  /\ step = "read" /\ todo = {}
  /\ stamps' = newStamps /\ names' = newNames
  /\ step' = "idle"
  /\ UNCHANGED <<fileVars, newStamps, newNames, todo, failed>>

CacheInit ==
  /\ file \in [Paths -> {0, 1}] /\ written = 1
  /\ stamps = Empty /\ names = Empty
  /\ newStamps = Empty /\ newNames = Empty
  /\ step = "idle" /\ todo = {} /\ failed = {}

CacheNext ==
  \/ \E p \in Paths : Write(p) \/ Delete(p)
  \/ BeginRefresh
  \/ \E p \in Paths, fails \in BOOLEAN : Stat(p, fails) \/ Read(p, fails)
  \/ Unchanged
  \/ Changed
  \/ Commit

CacheSpec == CacheInit /\ [][CacheNext]_cacheSystemVars

---------------------------------------------------------------------------
(* Properties.                                                             *)

CacheTypeOK ==
  /\ file \in [Paths -> Nat] /\ written \in Nat
  /\ \A p \in Paths : file[p] <= written
  /\ stamps \in [Paths -> Nat] /\ names \in [Paths -> Nat]
  /\ newStamps \in [Paths -> Nat] /\ newNames \in [Paths -> Nat]
  /\ step \in {"idle", "stat", "read"}
  /\ todo \subseteq Paths /\ failed \subseteq Paths

(* A file that has the stamp the cache remembers is the one whose names it *)
(* holds, unless its read failed: pciNameCache.refresh never keeps names   *)
(* of an old version for good because the file was replaced between its    *)
(* stat and its read.  A read that fails does leave a hole until the file  *)
(* changes again.                                                          *)
NamesAreOfTheFiles ==
  step # "read" =>
    \A p \in Paths :
      stamps[p] # 0 /\ stamps[p] = file[p] => names[p] = file[p] \/ p \in failed
=============================================================================
