-------------------------------- MODULE VppCfgd --------------------------------
(***************************************************************************)
(* vppcfgd: the daemon that turns the row PLATFORM|vpp of CONFIG_DB and    *)
(* STATE_DB into VPP's startup.conf and the bootup.conf it names.          *)
(*                                                                         *)
(* The daemon loads a template once, merges every row it is told of into   *)
(* it, and after each batch of events rewrites three files one after the   *)
(* other.  Rows change, and the daemon may be killed, between any two of   *)
(* its steps; nothing restarts it but an operator.                         *)
(*                                                                         *)
(* A suffix after an underscore marks a deliberately wrong form of the     *)
(* definition that follows; no specification uses it.                      *)
(***************************************************************************)
EXTENDS Naturals, Sequences

CONSTANTS
    Port,    \* veth ports, created by a line of bootup.conf each
    Dev,     \* PCI addresses of DPDK devices
    Name,    \* names a device can be given
    DpdkDisable,  \* environment variable DPDK_DISABLE is 'y'
    MaxEvents,    \* bound on database changes and kills together
    NONE,    \* no value
    BAD      \* a row one of whose fields is not JSON

Db == {"CONFIG_DB", "STATE_DB"}
File == {"json", "bootup", "startup"}
Key == {"vpp", "other"}

NoDev == [x \in Dev |-> NONE]

\* A row PLATFORM|vpp: the keys of vports and the names under dpdk.dev.  (A
\* row without either is stored with the field NULL, which is not JSON.)
Row == {r \in [vports : SUBSET Port, dev : [Dev -> Name \cup {NONE}]] :
            r.vports # {} \/ r.dev # NoDev}

\* The template with what has been merged into it; defaults is the template's
\* own part of the dpdk section, plugin the state of dpdk_plugin.so.
Config == [vports : SUBSET Port, dev : [Dev -> Name \cup {NONE}],
           defaults : BOOLEAN, plugin : {"enable", "disable"}]

ASSUME VppCfgdAssumption ==
    /\ DpdkDisable \in BOOLEAN
    /\ MaxEvents \in Nat
    /\ NONE \notin Name \cup Row \cup {BAD}
    /\ BAD \notin Row

VARIABLES
    db,       \* the row in each database; NONE when there is none
    events,   \* database changes and kills so far
    inbox,    \* keys of PLATFORM notified since the last select
    ready,    \* keys the current round has to pop
    preload,  \* the row a new subscription found, until it is popped
    pc,       \* where the daemon is
    cfg,      \* the template object, vpp.vpp_config
    giver,    \* the database whose row gave each device its name (history)
    loaded,   \* vpp_json_cfg is that object, and not None
    todo,     \* files the current commit has still to write
    file      \* the files on disk

vars == <<db, events, inbox, ready, preload, pc, cfg, giver, loaded, todo, file>>

\* The daemon subscribes to the databases in this order, so pc names the one
\* that is next.
Up == Db \cup {"select", "drain", "write", "truncated"}
Subscribed(d) == pc \in Up \ (IF d = "CONFIG_DB" THEN {d} ELSE Db)

NoKeys == [d \in Db |-> {}]
NoRows == [d \in Db |-> NONE]
\* vpp_template.json
Template == [vports |-> {}, dev |-> NoDev, defaults |-> TRUE, plugin |-> "enable"]

\* commit writes the files in this order.
Order_StartupFirst == <<"json", "startup", "bootup">>
Order == <<"json", "bootup", "startup">>

\* bootup.conf gets a line for each port, startup.conf all sections but
\* vports.  Nobody reads startup.json.
Text(f, c) ==
    CASE f = "json" -> {}
      [] f = "bootup" -> c.vports
      [] f = "startup" -> [dev |-> c.dev, defaults |-> c.defaults, plugin |-> c.plugin]
Whole(f, c) == [state |-> "whole", text |-> Text(f, c)]
Missing == [state |-> "missing"]
Torn == [state |-> "torn"]

TypeOK ==
    /\ db \in [Db -> Row \cup {NONE, BAD}]
    /\ events \in 0..MaxEvents
    /\ inbox \in [Db -> SUBSET Key]
    /\ ready \in [Db -> SUBSET Key]
    /\ preload \in [Db -> Row \cup {NONE, BAD}]
    /\ pc \in Up \cup {"down", "raised"}
    /\ cfg \in Config
    /\ giver \in [Dev -> Db \cup {NONE}]
    /\ loaded \in BOOLEAN
    /\ \E n \in 0..3 : todo = SubSeq(Order, n + 1, 3)
    /\ \A f \in File : file[f] \in {Missing, Torn} \cup {Whole(f, c) : c \in Config}

Init ==
    /\ db \in [Db -> Row \cup {NONE}]
    /\ events = 0
    /\ inbox = NoKeys /\ ready = NoKeys /\ preload = NoRows
    /\ pc = "down"
    /\ cfg = Template /\ giver = NoDev /\ loaded = FALSE
    /\ todo = <<>>
    /\ file = [f \in File |-> Missing]

-----------------------------------------------------------------------------
(* The databases *)

Notify(d, k) ==
    /\ events < MaxEvents
    /\ events' = events + 1
    /\ inbox' = IF Subscribed(d) THEN [inbox EXCEPT ![d] = @ \cup {k}] ELSE inbox

\* vppcfg_load.py (config load) or an operator writes the row.
SetRow(d, r) ==
    /\ db' = [db EXCEPT ![d] = r]
    /\ Notify(d, "vpp")
    /\ UNCHANGED <<ready, preload, pc, cfg, giver, loaded, todo, file>>

DelRow(d) ==
    /\ db[d] # NONE
    /\ db' = [db EXCEPT ![d] = NONE]
    /\ Notify(d, "vpp")
    /\ UNCHANGED <<ready, preload, pc, cfg, giver, loaded, todo, file>>

\* Another row of PLATFORM is set or deleted.
TouchOther(d) ==
    /\ Subscribed(d)
    /\ Notify(d, "other")
    /\ UNCHANGED <<db, ready, preload, pc, cfg, giver, loaded, todo, file>>

-----------------------------------------------------------------------------
(* The daemon *)

\* The process ends, and with it everything it had in memory.
Exit(end) ==
    /\ pc' = end
    /\ cfg' = Template /\ giver' = NoDev /\ loaded' = FALSE /\ todo' = <<>>
    /\ inbox' = NoKeys /\ ready' = NoKeys /\ preload' = NoRows
    /\ UNCHANGED <<db, file>>

\* do_work, with a fresh template and a ConfigMgr without configuration.
Start ==
    /\ pc \in {"down", "raised"}
    /\ pc' = "CONFIG_DB"
    /\ UNCHANGED <<db, events, inbox, ready, preload, cfg, giver, loaded, todo, file>>

\* Runner.add_manager: a new SubscriberStateTable reads the rows there are.
Subscribe(d) ==
    /\ pc = d
    /\ pc' = IF d = "CONFIG_DB" THEN "STATE_DB" ELSE "select"
    /\ preload' = [preload EXCEPT ![d] = db[d]]
    /\ \E others \in SUBSET {"other"} : inbox' = [inbox EXCEPT ![d] = others]
    /\ UNCHANGED <<db, events, ready, cfg, giver, loaded, todo, file>>

\* Runner.run: select returns when a subscription has something; what arrives
\* later is left for the next round.
Select ==
    /\ pc = "select"
    /\ \E d \in Db : inbox[d] # {} \/ preload[d] # NONE
    /\ pc' = "drain"
    /\ ready' = inbox
    /\ inbox' = NoKeys
    /\ UNCHANGED <<db, events, preload, cfg, giver, loaded, todo, file>>

\* It returns TIMEOUT otherwise, and the loop goes round.
SelectTimeout ==
    /\ pc = "select"
    /\ \A d \in Db : inbox[d] = {} /\ preload[d] = NONE
    /\ UNCHANGED vars

Undrained(d) == ready[d] # {} \/ preload[d] # NONE

\* ConfigMgr.deep_update: what the row says replaces or joins what is there;
\* nothing is ever taken out.
Merge_Replaces(c, r) == [c EXCEPT !.vports = r.vports, !.dev = r.dev]
Merge(c, r) ==
    [c EXCEPT !.vports = @ \cup r.vports,
              !.dev = [x \in Dev |-> IF r.dev[x] = NONE THEN @[x] ELSE r.dev[x]]]

MergeAll(c, rows) ==
    IF rows = <<>> THEN c
    ELSE IF Len(rows) = 1 THEN Merge(c, rows[1])
    ELSE Merge(Merge(c, rows[1]), rows[2])

\* The SET events of one subscription, in the order pop returns them: the row
\* found when subscribing, then the row as it is now if it was notified.  A
\* row that is gone is a DEL, which del_handler ignores, and so is any other
\* key by set_handler.
Popped_PreloadLast(d) ==
    (IF "vpp" \in ready[d] /\ db[d] # NONE THEN <<db[d]>> ELSE <<>>)
      \o (IF preload[d] = NONE THEN <<>> ELSE <<preload[d]>>)
Popped_PreloadOnly(d) == IF preload[d] = NONE THEN <<>> ELSE <<preload[d]>>
Popped(d) ==
    (IF preload[d] = NONE THEN <<>> ELSE <<preload[d]>>)
      \o (IF "vpp" \in ready[d] /\ db[d] # NONE THEN <<db[d]>> ELSE <<>>)

Names(rows, x) == \E i \in DOMAIN rows : rows[i].dev[x] # NONE

\* The inner loop of Runner.run with VppCfgMgr's handlers.  json.loads raises
\* on a field that is not JSON, and nobody catches it.
Drain(d) ==
    /\ pc = "drain" /\ Undrained(d)
    /\ LET rows == Popped(d)
       IN  \/ /\ \E i \in DOMAIN rows : rows[i] = BAD
              /\ Exit("down")
              /\ UNCHANGED events
           \/ /\ \A i \in DOMAIN rows : rows[i] # BAD
              /\ cfg' = MergeAll(cfg, rows)
              /\ giver' = [x \in Dev |-> IF Names(rows, x) THEN d ELSE giver[x]]
              /\ loaded' = (loaded \/ rows # <<>>)
              /\ ready' = [ready EXCEPT ![d] = {}]
              /\ preload' = [preload EXCEPT ![d] = NONE]
              /\ UNCHANGED <<db, events, inbox, pc, todo, file>>

\* vpp_dpdk_config and vpp_env_config, which change the template object.
WithoutDpdk(c) ==
    [c EXCEPT !.dev = NoDev, !.defaults = FALSE, !.plugin = "disable"]
Prepared_EnvOnly(c) == IF DpdkDisable THEN WithoutDpdk(c) ELSE c
Prepared(c) ==
    IF DpdkDisable \/ \A x \in Dev : c.dev[x] = NONE THEN WithoutDpdk(c) ELSE c

\* ConfigMgr.commit up to the first file.  It follows every round; without a
\* SET of PLATFORM|vpp in the round vpp_json_cfg is None and the test for
\* 'vports' raises TypeError.
Commit ==
    /\ pc = "drain" /\ \A d \in Db : ~Undrained(d)
    /\ \/ ~loaded /\ Exit("raised") /\ UNCHANGED events
       \/ /\ loaded
          /\ pc' = "write"
          /\ cfg' = Prepared(cfg)
          /\ todo' = Order
          /\ UNCHANGED <<db, events, inbox, ready, preload, giver, loaded, file>>

\* open(path, "w")
Open ==
    /\ pc = "write"
    /\ pc' = "truncated"
    /\ file' = [file EXCEPT ![Head(todo)] = Torn]
    /\ UNCHANGED <<db, events, inbox, ready, preload, cfg, giver, loaded, todo>>

Write_ResetsEarly ==
    /\ pc = "truncated"
    /\ file' = [file EXCEPT ![Head(todo)] =
                   Whole(Head(todo), IF Len(todo) = 1 THEN Template ELSE cfg)]
    /\ todo' = Tail(todo)
    /\ pc' = IF todo' = <<>> THEN "select" ELSE "write"
    /\ loaded' = (todo' # <<>>)
    /\ UNCHANGED <<db, events, inbox, ready, preload, cfg, giver>>

\* The file is written and closed; after the last one the configuration is
\* reset to None.
Write ==
    /\ pc = "truncated"
    /\ file' = [file EXCEPT ![Head(todo)] = Whole(Head(todo), cfg)]
    /\ todo' = Tail(todo)
    /\ pc' = IF todo' = <<>> THEN "select" ELSE "write"
    /\ loaded' = (todo' # <<>>)
    /\ UNCHANGED <<db, events, inbox, ready, preload, cfg, giver>>

\* A signal, an I/O error or a power cut.
Kill ==
    /\ pc \in Up /\ events < MaxEvents
    /\ events' = events + 1
    /\ Exit("down")

DaemonStep ==
    \/ \E d \in Db : Subscribe(d) \/ Drain(d)
    \/ Select \/ Commit \/ Open \/ Write

Next ==
    \/ \E d \in Db : DelRow(d) \/ TouchOther(d) \/ \E r \in Row \cup {BAD} : SetRow(d, r)
    \/ Start \/ Kill \/ SelectTimeout
    \/ DaemonStep

Spec == Init /\ [][Next]_vars

\* The operating system schedules the daemon.  Nothing starts it again.
FairSpec == Spec /\ WF_vars(DaemonStep)

-----------------------------------------------------------------------------
(* Properties *)

Has(d, p) == db[d] \in Row /\ p \in db[d].vports
Created(p) == file["bootup"].state = "whole" /\ p \in file["bootup"].text

\* Between rounds both files are those of one and the same configuration,
\* whatever was left on disk by a daemon that died in the middle of a commit.
\* (Only before the first commit cfg is the bare template.)
FilesOfOneConfig ==
    pc = "select" /\ cfg # Template =>
        \A f \in File : file[f] = Whole(f, cfg)

\* When the daemon has no event left, every port and device of the rows is in
\* the files: no row is missed between subscribing, the select and the pops.
\* Nor does an older row win: a device that a row of this database was the
\* last to name has the name that the row gives it now.
QuietFilesCoverRows ==
    \A d \in Db :
        /\ pc = "select" /\ inbox[d] = {} /\ preload[d] = NONE
        /\ db[d] \in Row
        => /\ \A p \in db[d].vports : Created(p)
           /\ \A x \in Dev : db[d].dev[x] # NONE /\ ~DpdkDisable =>
                 /\ file["startup"].text.dev[x] # NONE
                 /\ giver[x] = d => file["startup"].text.dev[x] = db[d].dev[x]

\* VPP may start at any time.  When it finds a startup.conf, the bootup.conf
\* that names is there too, also after a first commit that was cut short.
StartupHasBootup ==
    file["startup"] # Missing => file["bootup"] # Missing

\* VPP is told to load the DPDK plugin only together with devices for it, and
\* never against DPDK_DISABLE ("If interfaces list contains only virtual
\* interfaces then the sonic-vpp container disables DPDK"), in every
\* startup.conf that any daemon has written.
DpdkOnlyWithDevices ==
    LET f == file["startup"]
    IN  f.state = "whole" =>
           /\ f.text.plugin = "enable" =>
                 ~DpdkDisable /\ \E x \in Dev : f.text.dev[x] # NONE
           /\ f.text.defaults <=> f.text.plugin = "enable"

\* update hands out the template object itself, so that what one round has
\* made of it lasts as long as the daemon: later rounds lose no port and no
\* device, also when their rows are gone, and a plugin that is disabled stays
\* disabled, also when devices come.
MergedStays ==
    [][{pc, pc'} \subseteq Up =>
         /\ cfg.vports \subseteq cfg'.vports
         /\ ~DpdkDisable =>
               \A x \in Dev : cfg.dev[x] # NONE => cfg'.dev[x] # NONE
         /\ cfg.plugin = "disable" => cfg'.plugin = "disable"]_vars

\* A port that is in a row gets into bootup.conf, unless the row changes or
\* the daemon goes down first: it never stays in the row of a subscribed
\* database for ever without.
PortsReachBootup ==
    \A d \in Db, p \in Port :
        []<>(Has(d, p) /\ Subscribed(d) => Created(p))

\* commit returns ("True if change was applied successfully, False
\* otherwise"); it does not raise.
CommitReturns == pc # "raised"
=============================================================================
