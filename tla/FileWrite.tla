----------------------------- MODULE FileWrite -----------------------------
(***************************************************************************)
(* The three write_atomic() of the program: SyxFile.cpp's, which replaces  *)
(* a file only when its caller says so, and those of Settings.cpp and      *)
(* Diagnostics.cpp, which always do.  Each fills a temporary file beside   *)
(* the destination and moves it there.  A crash may come between any two   *)
(* steps; other programs see, and change, the same disk.  The Windows      *)
(* build moves with MoveFileExW; the other removes a .syx file before it   *)
(* renames the new one.                                                    *)
(*                                                                         *)
(* MoveOver is a plausible mistake the properties are tested against.      *)
(***************************************************************************)
EXTENDS Naturals

CONSTANT Paths         \* destinations

VARIABLES
  windows,             \* which build this is
  disk,                \* what each path holds
  temp,                \* what the temporary file beside it holds
  write                \* the write in progress

fileVars == <<windows, disk, temp, write>>

Missing == [form |-> "missing"]
Partial == [form |-> "partial"]      \* a prefix of what was to be written

NoWrite == [step |-> "idle"]

Writing == write.step # "idle"

(* Only one file is written at a time: the GUI thread waits for its writes.  *)
BeginWrite(kind, path, content, replace) ==
  write' = [step    |-> IF kind = "syx" THEN "check" ELSE "create",
            kind    |-> kind,
            path    |-> path,
            content |-> content,
            replace |-> replace,
            before  |-> disk[path]]

Step(next) == write' = [write EXCEPT !.step = next]

InTheWay == ~write.replace /\ disk[write.path] # Missing

Check ==
  /\ write.step = "check"
  /\ Step(IF InTheWay THEN "failed" ELSE "create")
  /\ UNCHANGED <<windows, disk, temp>>

(* A stale temporary file is removed, the new one opened.                    *)
CreateTemporary ==
  /\ write.step = "create"
  /\ temp' = [temp EXCEPT ![write.path] = Partial]
  /\ Step("fill")
  /\ UNCHANGED <<windows, disk>>

Fill ==
  /\ write.step = "fill"
  /\ temp' = [temp EXCEPT ![write.path] = write.content]
  /\ Step(IF ~windows /\ write.kind = "syx" /\ write.replace THEN "remove" ELSE "move")
  /\ UNCHANGED <<windows, disk>>

(* What remove() answers is lost: rename() answers into the same variable.   *)
RemoveDestination ==
  /\ write.step = "remove"
  /\ \/ disk' = [disk EXCEPT ![write.path] = Missing]
     \/ UNCHANGED disk
  /\ Step("move")
  /\ UNCHANGED <<windows, temp>>

MoveOver ==
  /\ write.step = "move"
  /\ disk' = [disk EXCEPT ![write.path] = temp[write.path]]
  /\ temp' = [temp EXCEPT ![write.path] = Missing]
  /\ Step("written")
  /\ UNCHANGED windows

(* MoveFileExW() replaces a file only if it is told to; rename() always does. *)
Move ==
  /\ write.step = "move"
  /\ windows => ~InTheWay
  /\ disk' = [disk EXCEPT ![write.path] = temp[write.path]]
  /\ temp' = [temp EXCEPT ![write.path] = Missing]
  /\ Step("written")
  /\ UNCHANGED windows

(* The system refuses a step: what was written is removed.                   *)
FileFails ==
  /\ write.step \in {"check", "create", "fill", "move"}
  /\ temp' = IF write.step \in {"fill", "move"} THEN [temp EXCEPT ![write.path] = Missing] ELSE temp
  /\ Step("failed")
  /\ UNCHANGED <<windows, disk>>

WriteStep == Check \/ CreateTemporary \/ Fill \/ RemoveDestination \/ Move \/ FileFails

=============================================================================
