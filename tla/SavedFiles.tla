----------------------------- MODULE SavedFiles -----------------------------
(***************************************************************************)
(* How windows save a file others load: save_portals of mapdata.py through *)
(* a temporary file with one fixed name, save_config of botconfig.py       *)
(* through one with a name of its own.  Both replace the file by it.       *)
(*                                                                         *)
(* A name leads to an inode and an open file stays on its inode, whatever  *)
(* becomes of the name.                                                    *)
(***************************************************************************)
EXTENDS Integers

CONSTANTS
  Windows,   \* processes that save
  MaxSaves   \* bound: saves begun

ASSUME FilesAssumption == MaxSaves \in Nat

VARIABLE disk
\* kind: "portals" or "config"; file and temporary: the inodes of the two names, temporary 0 for none;
\* inodes: 0 for torn, or the save whose text it is; saver: the windows that save, each with its save
\* and inode; saves begun; last: the save that last replaced the file; overlapped: two have saved at once

FilesInit ==
  \E kind \in {"portals", "config"} :
    disk = [kind |-> kind, file |-> 1, temporary |-> 0, inodes |-> <<1>>,
            saver |-> [w \in Windows |-> [at |-> "idle", inode |-> 0, save |-> 0]],
            saves |-> 1, last |-> 1, overlapped |-> FALSE]

Begun(w, d, inode) ==
  [d EXCEPT !.saves = @ + 1,
            !.saver[w] = [at |-> "opened", inode |-> inode, save |-> d.saves + 1],
            !.overlapped = @ \/ \E v \in Windows \ {w} : d.saver[v].at # "idle"]

New(d) == [d EXCEPT !.inodes = [i \in 1 .. d.saves + 1 |-> IF i <= d.saves THEN @[i] ELSE 0]]

\* A mutant: the file itself is opened.
OpenFile(w) ==
  /\ disk.saver[w].at = "idle" /\ disk.saves < MaxSaves
  /\ disk' = Begun(w, New([disk EXCEPT !.inodes[disk.file] = 0, !.temporary = disk.file]), disk.file)

\* Opening to write truncates what the name leads to.
Open(w) ==
  /\ disk.saver[w].at = "idle" /\ disk.saves < MaxSaves
  /\ disk' = IF disk.kind = "portals" /\ disk.temporary # 0
               THEN Begun(w, New([disk EXCEPT !.inodes[disk.temporary] = 0]), disk.temporary)
               ELSE Begun(w, New([disk EXCEPT !.temporary = IF disk.kind = "portals" THEN disk.saves + 1 ELSE 0]),
                          disk.saves + 1)

\* A text over a longer one leaves the end of that.
Write(w) ==
  /\ disk.saver[w].at = "opened"
  /\ \E text \in {disk.saver[w].save} \cup (IF disk.inodes[disk.saver[w].inode] = 0 THEN {} ELSE {0}) :
       disk' = [disk EXCEPT !.inodes[disk.saver[w].inode] = text, !.saver[w].at = "written"]

\* Without the name os.replace fails, which save_portals ignores.
Replace(w) ==
  /\ disk.saver[w].at = "written"
  /\ disk' = IF disk.kind = "portals"
               THEN IF disk.temporary = 0 THEN [disk EXCEPT !.saver[w].at = "idle"]
                    ELSE [disk EXCEPT !.file = disk.temporary, !.temporary = 0, !.saver[w].at = "idle",
                                      !.last = disk.saver[w].save]
               ELSE [disk EXCEPT !.file = disk.saver[w].inode, !.saver[w].at = "idle", !.last = disk.saver[w].save]

\* The process ends, or an OSError ends the save; the temporary file stays.
Fails(w) == disk.saver[w].at # "idle" /\ disk' = [disk EXCEPT !.saver[w].at = "idle"]

FilesNext == \E w \in Windows : Open(w) \/ Write(w) \/ Replace(w) \/ Fails(w)

FilesSpec == FilesInit /\ [][FilesNext]_disk

\* Whoever loads the file, also after a save that failed or a window that ended in the middle of
\* one, reads the whole text of the save that last replaced it; of the portals, unless two windows
\* ever saved at once (save_portals: "atomically"; save_config: "atomically").
FilesWhole ==
  disk.kind = "config" \/ ~disk.overlapped => disk.inodes[disk.file] = disk.last

=============================================================================
