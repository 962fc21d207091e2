------------------------ MODULE MCChannelApplication ------------------------
EXTENDS ChannelApplication, TLC

CONSTANTS i1, i2, i3, work, home, t1, t2, p1

User(id, role, remove, calendars) ==
  [id |-> id, role |-> role, enabled |-> TRUE, add |-> {}, remove |-> remove,
   calendars |-> calendars]
File(users) == [safe |-> TRUE, toml |-> TRUE, users |-> users]

(* The usual file: an owner, a tester kept to one calendar, a reader.      *)
UsualFile ==
  File(<<User(i1, "owner", {}, {}), User(i2, "tester", {}, {work}),
         User(i3, "read_only", {}, {})>>)

(* The owner may not execute high risks any more; the tester is disabled,  *)
(* the reader may confirm.                                                 *)
EditedFile ==
  File(<<User(i1, "owner", {"Proposals.Execute.HighRisk"}, {}),
         [User(i2, "tester", {}, {work}) EXCEPT !.enabled = FALSE],
         [User(i3, "read_only", {}, {home})
            EXCEPT !.add = {"Proposals.Confirm", "Tasks.Write"}]>>)

(* Files that are refused as a whole. *)
TwiceFile == File(<<User(i1, "owner", {}, {}), User(i1, "tester", {}, {})>>)
BadFile   == File(<<User(i1, "owner", {}, {}), User(i2, "tester", {}, {Malformed})>>)

MCFiles == {UsualFile, EditedFile, TwiceFile, BadFile}

Cast(commands, cli, others, files) ==
  [commands |-> commands, cli |-> cli, others |-> others, files |-> files]

Deciding == {"proposals.approve", "proposals.execute"}

ReadingCast ==
  Cast({"system.start", "system.help", "runtime.status", "tasks.list", "tasks.show",
        "calendar.list_calendars", "calendar.list_events", "calendar.show_event",
        "proposals.list", "proposals.show"}, {}, FALSE, MCFiles)

MCCasts ==
  {ReadingCast,
   Cast({"tasks.create", "proposals.show"} \cup Deciding, {"tasks.delete"}, FALSE,
        {UsualFile}),
   Cast({"tasks.complete", "tasks.delete"} \cup Deciding, {}, TRUE, {UsualFile}),
   Cast({"tasks.modify"} \cup Deciding, {"tasks.complete"}, FALSE, {UsualFile}),
   Cast({"calendar.create", "calendar.sync"} \cup Buttons, {}, FALSE,
        {UsualFile, EditedFile}),
   Cast({"calendar.modify", "calendar.cancel", "calendar.discover"} \cup Deciding, {},
        FALSE, {UsualFile})}

(* No cast names a task, so the tasks are interchangeable. *)
Symmetry == Permutations(Tasks)
=============================================================================
