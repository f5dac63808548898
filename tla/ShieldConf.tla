------------------------------- MODULE ShieldConf -------------------------------
(***************************************************************************)
(* The configuration: the directives of the three nested levels are read   *)
(* one by one, each level is merged with the one around it, the zones of   *)
(* the new cycle are set up, and the cycle serves until the next file is   *)
(* read.  A file that is refused leaves the cycle before it in place.  The *)
(* workers of a cycle finish their requests after the next one serves, and *)
(* record bans in its zones while they do.                                 *)
(*                                                                         *)
(* A directive is its name and its arguments; BAD stands for an argument   *)
(* that does not parse or is unknown.                                      *)
(***************************************************************************)
EXTENDS Integers, Sequences, SequencesExt, FiniteSetsExt

CONSTANTS
  Histories, \* the configurations an operator may write, one after the other
  MinSize,   \* the least size of a zone: eight pages
  UNSET,     \* NGX_CONF_UNSET of any type
  NULL,
  BAD

Main == 1
Server == 2
Location == 3
Levels == Main..Location

ASSUME SentinelAssumption == UNSET # NULL /\ MinSize \in Nat \ {0}

Written(s) == Len(s) \in Nat /\ DOMAIN s = 1..Len(s)

\* What nginx hands to the setters: as many arguments as the directive takes, at
\* least one, and none of them is a sentinel of the module.
IsDirective(d) ==
  /\ Written(d.args) /\ Len(d.args) > 0
  /\ d.name = "shield_ban_zone" => Len(d.args) = 2 /\ d.args[2] \in Nat \union {BAD}
  /\ \A i \in DOMAIN d.args :
       /\ d.args[i] \notin {UNSET, NULL}
       /\ d.name = "shield_ban" => d.args[i].value \notin {UNSET, NULL}

IsFile(f) ==
  \A l \in Levels : Written(f[l]) /\ \A i \in DOMAIN f[l] : IsDirective(f[l][i])

ASSUME HistoryAssumption ==
  \A history \in Histories :
    /\ history # <<>> /\ history \in Seq(ToSet(history))
    /\ \A i \in DOMAIN history : IsFile(history[i])

VARIABLES
  files,  \* the configurations still to be read
  file,   \* what is read: for each level its directives
  conf,   \* the loc_conf of each level
  at,     \* the level being read or merged, and the next directive of it
  zones,  \* the zones of the cycle being read: size, and whether one is defined
  phase,  \* "parse", "merge", "init", "serving", "refused"
  cycle,  \* what serves: the loc_confs, and of each zone size, segment and context
  reads,  \* the configurations read so far
  pools,  \* shared memory: of each segment, the sh that its slab pool points to
  held,   \* shared memory: of each sh, the bans recorded in it
  workers, \* the cycles that have workers: which each is, and its zones
  recorded \* history: the cycles whose workers recorded a ban, and in which zones

\* Before the first configuration.
NoCycle == [conf |-> NULL, zones |-> <<>>]

shared == <<pools, held, workers, recorded>>
vars == <<files, file, conf, at, zones, phase, cycle, reads, shared>>

------------------------------------------------------------------------------
(* Reading a level. *)

PEER == [key |-> "peer", trusted |-> {}]

\* ngx_http_shield_create_loc_conf: the key source is no sentinel.
create_loc_conf ==
  [mode |-> UNSET, body |-> UNSET, max_body |-> UNSET, status |-> UNSET, skip |-> {},
   log |-> UNSET, syslog_peer |-> UNSET,
   ban_zone |-> UNSET, ban |-> [count |-> UNSET, window |-> UNSET, time |-> UNSET],
   source |-> PEER, status_zone |-> NULL]

\* ngx_shared_memory_add: a zone may be named before it is defined; two sizes
\* conflict.
Zone(name) == IF name \in DOMAIN zones THEN zones[name] ELSE [size |-> 0, data |-> FALSE]

Conflicts(name, size) == size # 0 /\ Zone(name).size \notin {0, size}

AddZone(name, size, data) ==
  zones' = [z \in DOMAIN zones \union {name} |->
              IF z = name THEN [size |-> Max({size, Zone(name).size}),
                                data |-> Zone(name).data \/ data]
              ELSE zones[z]]

Directive == file[at.level][at.next]
Args == Directive.args
Conf == conf[at.level]

Reading(name) ==
  /\ phase = "parse" /\ at.next <= Len(file[at.level])
  /\ Directive.name = name
  /\ UNCHANGED <<files, file, cycle, reads, shared>>

Refuse == phase' = "refused" /\ UNCHANGED <<conf, at, zones>>

Set(c) ==
  /\ conf' = [conf EXCEPT ![at.level] = c]
  /\ at' = [at EXCEPT !.next = @ + 1]
  /\ UNCHANGED phase

\* A field that may be set once per level, to one of some values.
SetOnce(field, valid) ==
  IF Conf[field] = UNSET /\ Args[1] \in valid
  THEN Set([Conf EXCEPT ![field] = Args[1]]) /\ UNCHANGED zones
  ELSE Refuse

Mode == Reading("shield") /\ SetOnce("mode", {"off", "detect", "block"})
Status == Reading("shield_status") /\ SetOnce("status", {403, 404, 419, 429, 444})

\* nginx's own setters of a flag and of a size.
BodyFlag == Reading("shield_body") /\ SetOnce("body", BOOLEAN)
MaxBody == Reading("shield_max_body") /\ SetOnce("max_body", Nat)

\* Names add up, over the directives of a level too; an unknown one is refused.
Skip ==
  /\ Reading("shield_skip")
  /\ IF BAD \in ToSet(Args) THEN Refuse
     ELSE Set([Conf EXCEPT !.skip = @ \union ToSet(Args)]) /\ UNCHANGED zones

\* Mutant: switching the log off does not count as setting it.
SinksOffUnset(arg) ==
  CASE arg.kind = "off" -> [log |-> UNSET, syslog_peer |-> NULL]
    [] arg.kind = "syslog" -> [log |-> NULL, syslog_peer |-> arg]
    [] OTHER -> [log |-> arg, syslog_peer |-> NULL]

\* What the two sinks become: an explicit NULL is not "unset".
Sinks(arg) ==
  CASE arg.kind = "off" -> [log |-> NULL, syslog_peer |-> NULL]
    [] arg.kind = "syslog" -> [log |-> NULL, syslog_peer |-> arg]
    [] OTHER -> [log |-> arg, syslog_peer |-> NULL]

\* Off, a syslog server or a file; a pipe to a command, a server that does not
\* parse and a file that does not open are refused.
Log ==
  /\ Reading("shield_log")
  /\ IF Conf.log = UNSET /\ Args[1].kind \in {"off", "syslog", "file"}
     THEN /\ Set([Conf EXCEPT !.log = Sinks(Args[1]).log,
                              !.syslog_peer = Sinks(Args[1]).syslog_peer])
          /\ UNCHANGED zones
     ELSE Refuse

NoParameters ==
  [zone |-> NULL, count |-> UNSET, window |-> UNSET, bantime |-> UNSET,
   key |-> "peer", trusted |-> {}, error |-> FALSE]

ReadParameter(p, a) ==
  IF \/ a.value = BAD \/ a.name \notin DOMAIN p \ {"error"}
     \/ a.name \in {"count", "window", "bantime"} /\ a.value = 0
  THEN [p EXCEPT !.error = TRUE]
  ELSE IF a.name = "trusted" THEN [p EXCEPT !.trusted = @ \union {a.value}]
  ELSE [p EXCEPT ![a.name] = a.value]

\* One parameter after another; the last of a name counts, trusted ones add up.
Parameters == FoldLeft(ReadParameter, NoParameters, Args)

\* A forwarded key needs the proxies it is believed from, and they need it.
SourceComplete(p) == (p.key = "forwarded") <=> (p.trusted # {})

\* The whole policy, or none of it.
Ban ==
  /\ Reading("shield_ban")
  /\ LET p == Parameters
     IN  IF /\ Conf.ban_zone = UNSET /\ ~p.error
            /\ p.zone # NULL /\ UNSET \notin {p.count, p.window, p.bantime}
            /\ SourceComplete(p)
         THEN /\ AddZone(p.zone, 0, FALSE)
              /\ Set([Conf EXCEPT !.ban_zone = p.zone,
                        !.ban = [count |-> p.count, window |-> p.window, time |-> p.bantime],
                        !.source = [key |-> p.key, trusted |-> p.trusted]])
         ELSE Refuse

\* At the main level: a name and a size.
BanZone ==
  /\ Reading("shield_ban_zone")
  /\ LET name == Args[1] size == Args[2]
     IN  IF \/ at.level # Main \/ size = BAD \/ (size # BAD /\ size < MinSize)
            \/ Conflicts(name, size) \/ Zone(name).data
         THEN Refuse
         ELSE AddZone(name, size, TRUE) /\ Set(Conf)

\* In a location: the zone the status endpoint reports on.
BanStatus ==
  /\ Reading("shield_ban_status")
  /\ IF at.level = Location /\ Conf.status_zone = NULL
     THEN AddZone(Args[1], 0, FALSE) /\ Set([Conf EXCEPT !.status_zone = Args[1]])
     ELSE Refuse

\* No memory for a list, a zone, a peer or a file.
NoMemory ==
  /\ \E name \in {"shield_log", "shield_ban", "shield_ban_zone", "shield_ban_status"} :
       Reading(name)
  /\ Refuse

NextLevel ==
  /\ phase = "parse" /\ at.next > Len(file[at.level])
  /\ IF at.level < Location
     THEN at' = [level |-> at.level + 1, next |-> 1] /\ UNCHANGED phase
     ELSE at' = [level |-> Server, next |-> 1] /\ phase' = "merge"
  /\ UNCHANGED <<files, file, conf, zones, cycle, reads, shared>>

------------------------------------------------------------------------------
(* Merging, zones, reloads. *)

Merged(c, p, default) == IF c # UNSET THEN c ELSE IF p # UNSET THEN p ELSE default

Else(v, default) == IF v = UNSET THEN default ELSE v

\* Mutant: a level keeps its own key source under an inherited policy.
PolicyAlone(c, p) ==
  IF c.ban_zone # UNSET THEN c
  ELSE IF p.ban_zone # UNSET THEN [c EXCEPT !.ban_zone = p.ban_zone, !.ban = p.ban]
  ELSE [c EXCEPT !.ban_zone = NULL, !.ban = [count |-> 0, window |-> 0, time |-> 0],
                 !.source = PEER]

\* The policy is inherited as a unit, the key source with it.
Policy(c, p) ==
  IF c.ban_zone # UNSET THEN c
  ELSE IF p.ban_zone # UNSET
  THEN [c EXCEPT !.ban_zone = p.ban_zone, !.ban = p.ban, !.source = p.source]
  ELSE [c EXCEPT !.ban_zone = NULL, !.ban = [count |-> 0, window |-> 0, time |-> 0],
                 !.source = PEER]

\* The two sinks are inherited together.
MergedSinks(c, p) ==
  IF c.log # UNSET THEN c
  ELSE [c EXCEPT !.log = Else(p.log, NULL), !.syslog_peer = Else(p.syslog_peer, NULL)]

merge_loc_conf(c, p) ==
  LET scalars == [c EXCEPT !.mode = Merged(c.mode, p.mode, "off"),
                           !.body = Merged(c.body, p.body, TRUE),
                           !.max_body = Merged(c.max_body, p.max_body, 8192),
                           !.status = Merged(c.status, p.status, 403),
                           !.skip = IF c.skip = {} THEN p.skip ELSE c.skip]
  IN  Policy(MergedSinks(scalars, p), p)

Merge ==
  /\ phase = "merge"
  /\ conf' = [conf EXCEPT ![at.level] = merge_loc_conf(conf[at.level], conf[at.level - 1])]
  /\ IF at.level < Location
     THEN at' = [at EXCEPT !.level = @ + 1] /\ UNCHANGED phase
     ELSE UNCHANGED at /\ phase' = "init"
  /\ UNCHANGED <<files, file, zones, cycle, reads, shared>>

\* A zone that the last cycle had in the same size keeps its segment; init_zone is
\* then handed the context of before.
Kept(z) == z \in DOMAIN cycle.zones /\ cycle.zones[z].size = zones[z].size

Segment(z) == IF Kept(z) THEN cycle.zones[z].addr ELSE <<z, reads>>

LaidOut(z) == [sh |-> <<z, reads>>, shpool |-> Segment(z)]

\* Mutant: every cycle lays its zones out anew.
InitAnew(z) == LaidOut(z)

\* ngx_http_shield_ban_init_zone fills the context that the directive made for this
\* cycle: from the one before, or by laying out an sh in the segment.
init_zone(z) ==
  IF Kept(z)
  THEN LET octx == cycle.zones[z].ctx IN [sh |-> octx.sh, shpool |-> octx.shpool]
  ELSE LaidOut(z)

\* The zones of the cycle being read, once they are initialised.
SetUp ==
  [z \in DOMAIN zones |->
    [size |-> zones[z].size, addr |-> Segment(z), ctx |-> init_zone(z)]]

\* A worker that opens the segment itself finds that it exists (Windows).
Opened(zone) == [sh |-> pools[zone.addr], shpool |-> zone.addr]

\* The contexts that workers of a cycle may have for one of its zones: a copy of
\* their parent's, or their own.
Contexts(zone) == {zone.ctx, Opened(zone)}

\* nginx refuses a zone that was only ever named.
InitZones ==
  /\ phase = "init"
  /\ \A z \in DOMAIN zones : zones[z].size > 0
  /\ cycle' = [conf |-> conf, zones |-> SetUp]
  /\ pools' = [a \in DOMAIN pools \union {Segment(z) : z \in DOMAIN zones} |->
                IF a \in DOMAIN pools THEN pools[a] ELSE SetUp[a[1]].ctx.sh]
  /\ held' = [sh \in DOMAIN held \union {SetUp[z].ctx.sh : z \in DOMAIN zones} |->
                IF sh \in DOMAIN held THEN held[sh] ELSE {}]
  /\ workers' = workers \union {[cycle |-> reads, zones |-> SetUp]}
  /\ phase' = "serving"
  /\ UNCHANGED <<files, file, conf, at, zones, reads, recorded>>

\* No size, or no room in a new segment for what goes into it first.
InitFails ==
  /\ phase = "init"
  /\ \E z \in DOMAIN zones : zones[z].size = 0 \/ ~Kept(z)
  /\ phase' = "refused"
  /\ UNCHANGED <<files, file, conf, at, zones, cycle, reads, shared>>

Init ==
  /\ \E history \in Histories : file = Head(history) /\ files = Tail(history)
  /\ conf = [l \in Levels |-> create_loc_conf]
  /\ at = [level |-> Main, next |-> 1]
  /\ zones = <<>> /\ phase = "parse"
  /\ cycle = NoCycle /\ reads = 1
  /\ pools = <<>> /\ held = <<>> /\ workers = {} /\ recorded = {}

\* The operator reads a configuration over a cycle that serves.
Reload ==
  /\ phase \in {"serving", "refused"} /\ cycle # NoCycle /\ files # <<>>
  /\ file' = Head(files) /\ files' = Tail(files)
  /\ conf' = [l \in Levels |-> create_loc_conf]
  /\ at' = [level |-> Main, next |-> 1]
  /\ zones' = <<>> /\ phase' = "parse" /\ reads' = reads + 1
  /\ UNCHANGED <<cycle, shared>>

\* A worker of the cycle that serves, or of one before, bans a client.
Record ==
  /\ \E w \in workers : \E z \in DOMAIN w.zones : \E ctx \in Contexts(w.zones[z]) :
       /\ held' = [held EXCEPT ![ctx.sh] = @ \union {<<w.cycle, z>>}]
       /\ recorded' = recorded \union {<<w.cycle, z>>}
  /\ UNCHANGED <<files, file, conf, at, zones, phase, cycle, reads, pools, workers>>

Rest == phase \in {"serving", "refused"} /\ UNCHANGED vars

Next ==
  \/ Mode \/ Status \/ BodyFlag \/ MaxBody \/ Skip \/ Log \/ Ban \/ BanZone \/ BanStatus
  \/ NoMemory \/ NextLevel \/ Merge \/ InitZones \/ InitFails \/ Reload
  \/ Record \/ Rest

Spec == Init /\ [][Next]_vars

------------------------------------------------------------------------------
(* Properties. *)

\* Where a level of a file says something of one directive, what it says first,
\* and the nearest level that says something.
Said(f, l, name) == {i \in DOMAIN f[l] : f[l][i].name = name}
First(f, l, name) == f[l][Min(Said(f, l, name))].args
Nearest(f, l, name) == Max({0} \union {k \in 1..l : Said(f, k, name) # {}})
Given(f, l, name) == First(f, Nearest(f, l, name), name)

InForce(f, l, name, default) ==
  IF Nearest(f, l, name) = 0 THEN default ELSE Given(f, l, name)[1]

SkippedBy(f, l) ==
  UNION {ToSet(f[l][i].args) : i \in Said(f, l, "shield_skip")}

\* What the nearest level around l says, or the default.
Effective(f, l, c) ==
  /\ c.mode = InForce(f, l, "shield", "off")
  /\ c.status = InForce(f, l, "shield_status", 403)
  /\ c.body = InForce(f, l, "shield_body", TRUE)
  /\ c.max_body = InForce(f, l, "shield_max_body", 8192)
  /\ c.skip = IF Nearest(f, l, "shield_skip") = 0 THEN {}
              ELSE SkippedBy(f, Nearest(f, l, "shield_skip"))
  /\ LET sink == InForce(f, l, "shield_log", [kind |-> "off"])
     IN  /\ c.log = IF sink.kind = "file" THEN sink ELSE NULL
         /\ c.syslog_peer = IF sink.kind = "syslog" THEN sink ELSE NULL

\* What is in force in a level is what the nearest level around it says, or the
\* default: a value of another level, half of a pair, an explicit "off" taken for
\* silence or the reverse never is.
EffectiveIsNearest ==
  phase = "serving" => \A l \in {Server, Location} : Effective(file, l, cycle.conf[l])

\* What a shield_ban with these arguments gives for one parameter.
Values(args, name) == {args[i].value : i \in {j \in DOMAIN args : args[j].name = name}}

\* A policy in force is one shield_ban as it was written, with its key source: a
\* forwarded address is believed from someone, and from no one otherwise.
Whole(c, args) ==
  /\ c.ban_zone \in Values(args, "zone")
  /\ c.ban.count \in Values(args, "count")
  /\ c.ban.window \in Values(args, "window")
  /\ c.ban.time \in Values(args, "bantime")
  /\ c.source.trusted = Values(args, "trusted")
  /\ c.source.key \in Values(args, "key") \union {"peer"}
  /\ (c.source.key = "forwarded") <=> (c.source.trusted # {})

\* The policy in force in a level is the nearest one, or none.
Policed(f, l, c) ==
  IF Nearest(f, l, "shield_ban") = 0
  THEN c.ban_zone = NULL /\ c.source = PEER
  ELSE Whole(c, Given(f, l, "shield_ban"))

\* Where a zone is defined, and that this is in one place.
Defining(f, name) == {i \in Said(f, Main, "shield_ban_zone") : f[Main][i].args[1] = name}

DefinedOnce(f, name, size) ==
  \E i \in Said(f, Main, "shield_ban_zone") :
    Defining(f, name) = {i} /\ size = f[Main][i].args[2]

\* The policy in force in a level is the nearest one, whole, and its zone is
\* defined, once, wherever in the file that is.
PolicyIsWhole ==
  phase = "serving" =>
    \A l \in {Server, Location} :
      LET c == cycle.conf[l]
      IN  /\ Policed(file, l, c)
          /\ Nearest(file, l, "shield_ban") # 0 =>
               DefinedOnce(file, c.ban_zone, cycle.zones[c.ban_zone].size)

\* From this cycle to the one that serves, every one had the zone, in one size.
Unbroken(w, z) ==
  \A v \in workers :
    v.cycle >= w.cycle => z \in DOMAIN v.zones /\ v.zones[z].size = w.zones[z].size

\* The bans of a zone outlive the reloads that leave its size alone: what the workers
\* of an older cycle recorded in it, before or after the reloads, the workers of the
\* one that serves find, and both lock the same mutex, whatever refused configurations
\* come between and however they came by their context (init_zone).
ReloadKeepsBans ==
  \A w \in workers : \A z \in DOMAIN w.zones :
    Unbroken(w, z) =>
      \A mine \in Contexts(w.zones[z]), theirs \in Contexts(cycle.zones[z]) :
        /\ mine.shpool = theirs.shpool
        /\ <<w.cycle, z>> \in recorded => <<w.cycle, z>> \in held[theirs.sh]
==============================================================================
