---------------------------- MODULE ChannelPolicy ----------------------------
(***************************************************************************)
(* Who may ask for what over a channel: the authorised-user file           *)
(* (channels/authorised_users.py), roles and capabilities                  *)
(* (channels/authorisation.py), and the static routes of Telegram commands *)
(* and buttons (adapters/telegram/routing.py).  Pure operators.            *)
(***************************************************************************)
EXTENDS Naturals, Sequences

CONSTANTS
  Identities, \* Telegram (user, chat) pairs
  Calendars,  \* calendar identifiers
  Nobody,     \* no user
  Malformed   \* an identifier, role, capability or calendar that does not parse

ASSUME PolicyConstantsAssumption ==
  /\ Nobody \notin Identities /\ Malformed \notin Identities
  /\ Malformed \notin Calendars

-----------------------------------------------------------------------------
(* Capabilities and roles. *)

Reads == {"Runtime.Status.Read", "Calendar.Read", "Tasks.Read",
          "Proposals.Read", "Knowledge.Read.Low"}

Capabilities ==
  Reads \cup {"Calendar.Write", "Calendar.Delete", "Calendar.Sync",
              "Tasks.Write", "Tasks.Delete", "Proposals.Confirm",
              "Proposals.Execute.LowRisk", "Proposals.Execute.MediumRisk",
              "Proposals.Execute.HighRisk", "Knowledge.Read.Medium",
              "Knowledge.Read.Critical"}

Roles == {"owner", "tester", "read_only"}

RolePolicies ==
  [owner     |-> Capabilities,
   tester    |-> Reads \cup {"Calendar.Write", "Tasks.Write",
                             "Proposals.Confirm", "Proposals.Execute.LowRisk"},
   read_only |-> Reads]

(* One entry of the file.  An empty list of calendars restricts nothing. *)
Entry == [id      : Identities \cup {Malformed},
          role    : Roles \cup {Malformed},
          enabled : BOOLEAN,
          add     : SUBSET (Capabilities \cup {Malformed}),
          remove  : SUBSET (Capabilities \cup {Malformed}),
          calendars : SUBSET (Calendars \cup {Malformed})]

(* Removals win over additions. *)
CapabilitiesOf(u) ==
  IF u = Nobody THEN {} ELSE (RolePolicies[u.role] \cup u.add) \ u.remove

-----------------------------------------------------------------------------
(* The authorised-user file: one bad entry refuses all of it. *)

UserFile == [safe : BOOLEAN,    \* a regular file, no link, private, UTF-8
             toml : BOOLEAN,    \* valid TOML, schema version 1, known fields
             users : Seq(Entry)]

IdentifierIsValid(e)    == e.id # Malformed
RoleIsValid(e)          == e.role # Malformed
CapabilitiesAreValid(s) == Malformed \notin s
CalendarsAreValid(e)    == Malformed \notin e.calendars

EntryIsValid(e) ==
  /\ IdentifierIsValid(e) /\ RoleIsValid(e)
  /\ CapabilitiesAreValid(e.add) /\ CapabilitiesAreValid(e.remove)
  /\ CalendarsAreValid(e)

DuplicateIdentities(users) ==
  {i \in DOMAIN users : \E j \in 1..(i - 1) : users[j].id = users[i].id}

Parses(f) ==
  /\ f.toml
  /\ \A i \in DOMAIN f.users : EntryIsValid(f.users[i])
  /\ DuplicateIdentities(f.users) = {}

(* The enabled users a worker starts with: a set, for a file that parses   *)
(* names no identity twice.  With none of them the worker does not start.  *)
LoadUsers(f) ==
  IF f.safe /\ Parses(f)
    THEN {f.users[i] : i \in {j \in DOMAIN f.users : f.users[j].enabled}}
    ELSE {}

(* The one enabled entry with exactly this identity. *)
Authorise(id, users) ==
  LET matches == {u \in users : u.id = id} IN
  IF \E u \in matches : matches = {u} /\ u.enabled
    THEN CHOOSE u \in matches : TRUE
    ELSE Nobody

-----------------------------------------------------------------------------
(* Routes.  A Telegram command names one channel command, the capability   *)
(* it needs and how many arguments it takes.                               *)

Unlimited == 99

CommandRoute(needs, least, most) == [needs |-> needs, least |-> least, most |-> most]

StartRoute == CommandRoute("Runtime.Status.Read", 0, 0)

Commands ==
  {"system.start", "system.help", "runtime.status", "tasks.list", "tasks.show",
   "tasks.create", "tasks.modify", "tasks.complete", "tasks.delete",
   "calendar.list_calendars", "calendar.list_events", "calendar.show_event",
   "calendar.sync", "calendar.discover", "calendar.create", "calendar.modify",
   "calendar.cancel", "proposals.list", "proposals.show", "proposals.approve",
   "proposals.reject", "proposals.cancel", "proposals.execute"}

CommandRoutes == [c \in Commands |->
  CASE c = "tasks.list"      -> CommandRoute("Tasks.Read", 0, 0)
    [] c = "tasks.show"      -> CommandRoute("Tasks.Read", 1, 1)
    [] c = "tasks.create"    -> CommandRoute("Tasks.Write", 1, Unlimited)
    [] c = "tasks.modify"    -> CommandRoute("Tasks.Write", 2, Unlimited)
    [] c = "tasks.complete"  -> CommandRoute("Tasks.Write", 1, 1)
    [] c = "tasks.delete"    -> CommandRoute("Tasks.Delete", 1, 1)
    [] c = "calendar.list_calendars" -> CommandRoute("Calendar.Read", 0, 0)
    [] c = "calendar.list_events"    -> CommandRoute("Calendar.Read", 2, Unlimited)
    [] c = "calendar.show_event"     -> CommandRoute("Calendar.Read", 2, 2)
    [] c = "calendar.sync"     -> CommandRoute("Calendar.Sync", 0, 0)
    [] c = "calendar.discover" -> CommandRoute("Calendar.Sync", 0, 0)
    [] c = "calendar.create"   -> CommandRoute("Calendar.Write", 5, Unlimited)
    [] c = "calendar.modify"   -> CommandRoute("Calendar.Write", 3, Unlimited)
    [] c = "calendar.cancel"   -> CommandRoute("Calendar.Write", 2, 2)
    [] c = "proposals.list"    -> CommandRoute("Proposals.Read", 0, 0)
    [] c = "proposals.show"    -> CommandRoute("Proposals.Read", 1, 1)
    [] c = "proposals.approve" -> CommandRoute("Proposals.Confirm", 1, 1)
    [] c = "proposals.reject"  -> CommandRoute("Proposals.Confirm", 1, Unlimited)
    [] c = "proposals.cancel"  -> CommandRoute("Proposals.Confirm", 1, Unlimited)
    [] c = "proposals.execute" -> CommandRoute("Proposals.Read", 1, 1)
    [] OTHER                   -> StartRoute]

(* A button carries an action and a proposal.  Executing needs only        *)
(* Proposals.Read here: the handler asks for the capability of the risk.   *)
CallbackRoutes ==
  [c \in {"proposals.approve", "proposals.reject", "proposals.cancel",
          "proposals.execute"} |->
     [needs |-> IF c = "proposals.execute" THEN "Proposals.Read"
                                           ELSE "Proposals.Confirm"]]

(* A message is routed when it splits into words, is addressed to this bot,*)
(* names a command and has the arguments the command takes.                *)
RouteMessage(r) ==
  /\ r.text
  /\ r.command \in DOMAIN CommandRoutes
  /\ r.count \in CommandRoutes[r.command].least..CommandRoutes[r.command].most

(* A button press is routed when its data is an action and an identifier. *)
RouteCallback(r) == r.text /\ r.command \in DOMAIN CallbackRoutes

Needs(r) == IF r.via = "callback" THEN CallbackRoutes[r.command].needs
                                  ELSE CommandRoutes[r.command].needs

(* An update becomes a channel request: routed, authorised, capable. *)
Routed(id, r, users) ==
  /\ IF r.via = "callback" THEN RouteCallback(r) ELSE RouteMessage(r)
  /\ Needs(r) \in CapabilitiesOf(Authorise(id, users))
==============================================================================
