---------------------------- MODULE VppCfgdProofs ----------------------------
(***************************************************************************)
(* Proofs about VppCfgd for any ports, devices and rows, and for a daemon  *)
(* that may be killed at any step any number of times.                     *)
(***************************************************************************)
EXTENDS VppCfgd, SequenceTheorems, TLAPS

Typed ==
    /\ db \in [Db -> Row \cup {NONE, BAD}]
    /\ inbox \in [Db -> SUBSET Key]
    /\ ready \in [Db -> SUBSET Key]
    /\ preload \in [Db -> Row \cup {NONE, BAD}]
    /\ pc \in Up \cup {"down", "raised"}
    /\ cfg \in Config
    /\ giver \in [Dev -> Db \cup {NONE}]
    /\ DOMAIN file = File

\* How far the current commit has come: what is written is the text of the
\* configuration in memory, which does not change before the last file.
Progress ==
    \/ todo = <<"json", "bootup", "startup">>
    \/ todo = <<"bootup", "startup">> /\ file["json"] = Whole("json", cfg)
    \/ /\ todo = <<"startup">>
       /\ file["json"] = Whole("json", cfg) /\ file["bootup"] = Whole("bootup", cfg)

Written ==
    /\ pc \in {"write", "truncated"} => Progress
    /\ pc \in {"down", "raised", "CONFIG_DB", "STATE_DB"} => cfg = Template
    /\ pc = "select" => cfg = Template \/ \A f \in File : file[f] = Whole(f, cfg)
    /\ StartupHasBootup

-----------------------------------------------------------------------------
(* Rows and configurations *)

LEMMA TemplateTyped == Template \in Config
BY SMTT(40) DEF Template, Config, NoDev

LEMMA MergeTyped ==
    ASSUME NEW c \in Config, NEW r \in Row
    PROVE  Merge(c, r) \in Config
BY Zenon DEF Merge, Config, Row

LEMMA PreparedTyped == ASSUME NEW c \in Config PROVE Prepared(c) \in Config
BY Zenon DEF Prepared, WithoutDpdk, Config, NoDev

LEMMA Concats ==
    ASSUME NEW a, NEW b
    PROVE  /\ <<a>> \o <<b>> = <<a, b>>
           /\ <<>> \o <<b>> = <<b>>
           /\ <<a>> \o <<>> = <<a>>
           /\ <<>> \o <<>> = <<>>
<1>1. <<a>> \o <<b>> = <<a, b>>
  <2>1. <<a>> \in Seq({a, b}) /\ <<b>> \in Seq({a, b}) /\ <<a, b>> \in Seq({a, b})
    OBVIOUS
  <2>2. /\ <<a>> \o <<b>> \in Seq({a, b})
        /\ Len(<<a>> \o <<b>>) = 2
        /\ \A i \in 1..2 : (<<a>> \o <<b>>)[i] = <<a, b>>[i]
    BY <2>1, ConcatProperties
  <2>. QED BY <2>1, <2>2, SeqEqual, Zenon
<1>2. <<>> \o <<b>> = <<b>>
  OBVIOUS
<1>3. <<a>> \o <<>> = <<a>>
  OBVIOUS
<1>4. <<>> \o <<>> = <<>>
  OBVIOUS
<1>. QED BY <1>1, <1>2, <1>3, <1>4

LEMMA Tuples ==
    ASSUME NEW a, NEW b
    PROVE  /\ <<a>> # <<>> /\ <<a, b>> # <<>>
           /\ Len(<<a>>) = 1 /\ Len(<<a, b>>) = 2
           /\ DOMAIN <<a>> = {1} /\ DOMAIN <<a, b>> = {1, 2}
           /\ <<a>>[1] = a /\ <<a, b>>[1] = a /\ <<a, b>>[2] = b
OBVIOUS

\* What pop returns, one subscription after the other.
LEMMA PoppedForms ==
    ASSUME NEW d \in Db
    PROVE  LET a == preload[d]
               b == "vpp" \in ready[d] /\ db[d] # NONE
           IN  /\ a = NONE /\ ~b => Popped(d) = <<>>
               /\ a = NONE /\ b => Popped(d) = <<db[d]>>
               /\ a # NONE /\ ~b => Popped(d) = <<a>>
               /\ a # NONE /\ b => Popped(d) = <<a, db[d]>>
BY Concats, ZenonT(40) DEF Popped

\* Drain: either it raises, or every popped row was a row, and is merged.
LEMMA Drained ==
    ASSUME Typed, NEW d \in Db, Drain(d), ~Exit("down")
    PROVE  /\ \A i \in DOMAIN Popped(d) : Popped(d)[i] \in Row
           /\ cfg' = MergeAll(cfg, Popped(d)) /\ cfg' \in Config
           /\ giver' = [x \in Dev |-> IF Names(Popped(d), x) THEN d ELSE giver[x]]
           /\ ready' = [ready EXCEPT ![d] = {}]
           /\ preload' = [preload EXCEPT ![d] = NONE]
           /\ pc = "drain"
           /\ UNCHANGED <<db, events, inbox, pc, todo, file>>
<1>1. /\ \A i \in DOMAIN Popped(d) : Popped(d)[i] # BAD
      /\ cfg' = MergeAll(cfg, Popped(d))
      /\ giver' = [x \in Dev |-> IF Names(Popped(d), x) THEN d ELSE giver[x]]
      /\ ready' = [ready EXCEPT ![d] = {}]
      /\ preload' = [preload EXCEPT ![d] = NONE]
      /\ pc = "drain"
      /\ UNCHANGED <<db, events, inbox, pc, todo, file>>
  BY DEF Drain
<1>2. preload[d] \in Row \cup {NONE, BAD} /\ db[d] \in Row \cup {NONE, BAD}
  BY DEF Typed
<1>3. CASE Popped(d) = <<>>
  BY <1>1, <1>3 DEF MergeAll, Typed
<1>4. CASE \E r : r \in {preload[d], db[d]} \ {NONE} /\ Popped(d) = <<r>>
  <2>1. PICK r : r \in {preload[d], db[d]} \ {NONE} /\ Popped(d) = <<r>>
    BY <1>4
  <2>2. DOMAIN <<r>> = {1} /\ <<r>>[1] = r /\ Len(<<r>>) = 1 /\ <<r>> # <<>>
    OBVIOUS
  <2>3. r \in Row
    BY <1>1, <1>2, <2>1, <2>2
  <2>4. cfg' = Merge(cfg, r)
    BY <1>1, <2>1, <2>2 DEF MergeAll
  <2>5. cfg' \in Config
    BY <2>3, <2>4, MergeTyped DEF Typed
  <2>. QED BY <1>1, <2>1, <2>2, <2>3, <2>5
<1>5. CASE preload[d] # NONE /\ db[d] # NONE /\ Popped(d) = <<preload[d], db[d]>>
  <2>1. /\ DOMAIN <<preload[d], db[d]>> = {1, 2} /\ Len(<<preload[d], db[d]>>) = 2
        /\ <<preload[d], db[d]>>[1] = preload[d] /\ <<preload[d], db[d]>>[2] = db[d]
        /\ <<preload[d], db[d]>> # <<>>
    OBVIOUS
  <2>2. preload[d] \in Row /\ db[d] \in Row
    BY <1>1, <1>2, <1>5, <2>1
  <2>3. cfg' = Merge(Merge(cfg, preload[d]), db[d])
    BY <1>1, <1>5, <2>1 DEF MergeAll
  <2>4. cfg' \in Config
    BY <2>2, <2>3, MergeTyped DEF Typed
  <2>. QED BY <1>1, <1>5, <2>1, <2>2, <2>4
<1>. QED BY <1>3, <1>4, <1>5, PoppedForms

-----------------------------------------------------------------------------
(* Types *)

LEMMA TypedInit == Init => Typed
BY TemplateTyped DEF Init, Typed, NoKeys, NoRows, NoDev, Up

LEMMA ExitTyped == ASSUME Typed, NEW e \in {"down", "raised"}, Exit(e) PROVE Typed'
BY TemplateTyped DEF Exit, Typed, NoKeys, NoRows, NoDev

LEMMA TypedNext == Typed /\ [Next]_vars => Typed'
<1>. SUFFICES ASSUME Typed, [Next]_vars PROVE Typed'
  OBVIOUS
<1>1. ASSUME NEW d \in Db, DelRow(d) \/ TouchOther(d) \/ \E r \in Row \cup {BAD} : SetRow(d, r)
      PROVE  Typed'
  <2>1. /\ db' \in [Db -> Row \cup {NONE, BAD}]
        /\ UNCHANGED <<ready, preload, pc, cfg, giver, file>>
    BY <1>1 DEF DelRow, TouchOther, SetRow, Typed
  <2>2. inbox' \in [Db -> SUBSET Key]
    BY <1>1 DEF DelRow, TouchOther, SetRow, Notify, Typed, Key
  <2>. QED BY <2>1, <2>2 DEF Typed
<1>2. CASE Start \/ SelectTimeout \/ UNCHANGED vars
  BY <1>2 DEF Start, SelectTimeout, vars, Typed, Up, Db
<1>3. CASE Kill
  BY <1>3, ExitTyped DEF Kill
<1>4. ASSUME NEW d \in Db, Subscribe(d) PROVE Typed'
  <2>1. preload' \in [Db -> Row \cup {NONE, BAD}] /\ inbox' \in [Db -> SUBSET Key]
    BY <1>4 DEF Subscribe, Typed, Key
  <2>. QED BY <1>4, <2>1 DEF Subscribe, Typed, Up, Db
<1>5. ASSUME NEW d \in Db, Drain(d) PROVE Typed'
  <2>1. CASE Exit("down")
    BY <2>1, ExitTyped
  <2>2. CASE ~Exit("down")
    BY <1>5, <2>2, Drained DEF Typed
  <2>. QED BY <2>1, <2>2
<1>6. CASE Select
  BY <1>6 DEF Select, Typed, NoKeys, Up
<1>7. CASE Commit
  BY <1>7, ExitTyped, PreparedTyped DEF Commit, Typed, Up
<1>8. CASE Open \/ Write
  <2>1. UNCHANGED <<db, inbox, ready, preload, cfg, giver>> /\ pc' \in Up /\ DOMAIN file' = File
    BY <1>8 DEF Open, Write, Typed, Up
  <2>. QED BY <2>1 DEF Typed
<1>. QED BY <1>1, <1>2, <1>3, <1>4, <1>5, <1>6, <1>7, <1>8 DEF Next, DaemonStep

-----------------------------------------------------------------------------
(* The files *)

LEMMA NotMissing ==
    /\ Torn # Missing
    /\ \A f, c : Whole(f, c) # Missing
<1>1. Missing.state = "missing" /\ Torn.state = "torn"
  BY DEF Missing, Torn
<1>2. \A f, c : Whole(f, c).state = "whole"
  BY DEF Whole
<1>. QED BY <1>1, <1>2

LEMMA NextFile == Progress => Head(todo) \in File
BY DEF Progress, File

LEMMA NonEmpty == <<"bootup", "startup">> # <<>> /\ <<"startup">> # <<>>
OBVIOUS

LEMMA WrittenNext == Typed /\ Written /\ [Next]_vars => Written'
<1>. SUFFICES ASSUME Typed, Written, [Next]_vars PROVE Written'
  OBVIOUS
<1>1. CASE UNCHANGED <<pc, cfg, todo, file>>
  BY <1>1 DEF Written, Progress, StartupHasBootup
<1>2. ASSUME NEW e \in {"down", "raised"}, Exit(e) PROVE Written'
  BY <1>2 DEF Exit, Written, StartupHasBootup
<1>3. CASE Start
  BY <1>3 DEF Start, Written, StartupHasBootup
<1>4. ASSUME NEW d \in Db, Subscribe(d) PROVE Written'
  BY <1>4 DEF Subscribe, Written, StartupHasBootup, Db
<1>5. ASSUME NEW d \in Db, Drain(d) PROVE Written'
  <2>1. CASE Exit("down")
    BY <1>2, <2>1
  <2>2. CASE ~Exit("down")
    BY <1>5, <2>2, Drained DEF Written, StartupHasBootup
  <2>. QED BY <2>1, <2>2
<1>6. CASE Select
  BY <1>6 DEF Select, Written, StartupHasBootup
<1>7. CASE Commit
  BY <1>2, <1>7 DEF Commit, Written, Progress, Order, StartupHasBootup
<1>8. CASE Open
  <2>1. PICK h \in File : h = Head(todo) /\ file' = [file EXCEPT ![h] = Torn]
    BY <1>8, NextFile, ZenonT(40) DEF Open, Written
  <2>2. Progress'
    BY <1>8, <2>1 DEF Open, Written, Progress, Typed, File
  <2>3. h = "startup" => file["bootup"] # Missing
    BY <1>8, <2>1, NotMissing DEF Open, Written, Progress
  <2>4. StartupHasBootup'
    BY <2>1, <2>3, NotMissing DEF Written, StartupHasBootup, Typed, File
  <2>. QED BY <1>8, <2>2, <2>4 DEF Open, Written
<1>9. CASE Write
  <2>1. PICK h \in File : h = Head(todo) /\ file' = [file EXCEPT ![h] = Whole(h, cfg)]
    BY <1>9, NextFile, Zenon DEF Write, Written
  <2>2. UNCHANGED cfg /\ todo' = Tail(todo) /\ Progress
    BY <1>9 DEF Write, Written
  <2>3. file'[h] = Whole(h, cfg) /\ \A f \in File \ {h} : file'[f] = file[f]
    BY <2>1 DEF Typed
  <2>4. h = "startup" => file["bootup"] # Missing
    BY <2>1, <2>2, NotMissing DEF Progress
  <2>5. StartupHasBootup'
    BY <2>1, <2>3, <2>4, NotMissing, SMTT(40) DEF Written, StartupHasBootup, File
  <2>6. CASE todo = <<"json", "bootup", "startup">>
    <3>1. h = "json" /\ todo' = <<"bootup", "startup">>
      BY <2>1, <2>2, <2>6
    <3>2. pc' = "write"
      BY <1>9, <3>1, NonEmpty, ZenonT(40) DEF Write
    <3>3. file'["json"] = Whole("json", cfg')
      BY <2>2, <2>3, <3>1
    <3>4. Progress'
      BY <3>1, <3>3 DEF Progress, Whole
    <3>. QED BY <2>5, <3>2, <3>4 DEF Written
  <2>7. CASE todo = <<"bootup", "startup">>
    <3>1. h = "bootup" /\ todo' = <<"startup">>
      BY <2>1, <2>2, <2>7
    <3>2. pc' = "write"
      BY <1>9, <3>1, NonEmpty, ZenonT(40) DEF Write
    <3>3. /\ file'["json"] = Whole("json", cfg')
          /\ file'["bootup"] = Whole("bootup", cfg')
      BY <2>2, <2>3, <2>7, <3>1, SMTT(40) DEF Progress, File
    <3>4. Progress'
      BY <3>1, <3>3, SMTT(40) DEF Progress, Whole
    <3>. QED BY <2>5, <3>2, <3>4 DEF Written
  <2>8. CASE todo = <<"startup">>
    <3>1. h = "startup" /\ todo' = <<>>
      BY <2>1, <2>2, <2>8, SMTT(40)
    <3>2. pc' = "select" /\ \A f \in File : file'[f] = Whole(f, cfg)
      BY <1>9, <2>2, <2>3, <2>8, <3>1 DEF Progress, Write, File
    <3>3. (\A f \in File : file[f] = Whole(f, cfg))'
      BY <2>2, <3>2, ZenonT(40) DEF Whole, Text
    <3>. QED BY <2>5, <3>2, <3>3 DEF Written
  <2>. QED BY <2>2, <2>6, <2>7, <2>8 DEF Progress
<1>10. CASE \E d \in Db : DelRow(d) \/ TouchOther(d) \/ \E r \in Row \cup {BAD} : SetRow(d, r)
  BY <1>1, <1>10 DEF DelRow, TouchOther, SetRow
<1>11. CASE SelectTimeout \/ UNCHANGED vars
  BY <1>1, <1>11 DEF SelectTimeout, vars
<1>12. CASE Kill
  BY <1>2, <1>12 DEF Kill
<1>. QED BY <1>3, <1>4, <1>5, <1>6, <1>7, <1>8, <1>9, <1>10, <1>11, <1>12
         DEF Next, DaemonStep

LEMMA WrittenInit == Init => Written
BY DEF Init, Written, StartupHasBootup, File

\* Between rounds all files are those of one configuration, whatever a daemon
\* killed in the middle of a commit has left behind (FilesOfOneConfig).
THEOREM RoundsComplete == Spec => []FilesOfOneConfig
<1>1. Written => FilesOfOneConfig
  BY DEF Written, FilesOfOneConfig
<1>. QED BY <1>1, TypedInit, TypedNext, WrittenInit, WrittenNext, PTL DEF Spec

\* VPP never finds a startup.conf without the bootup.conf it names
\* (StartupHasBootup).
THEOREM BootupFirst == Spec => []StartupHasBootup
<1>1. Written => StartupHasBootup
  BY DEF Written
<1>. QED BY <1>1, TypedInit, TypedNext, WrittenInit, WrittenNext, PTL DEF Spec

-----------------------------------------------------------------------------
(* No row is missed *)

\* A configuration has every port and device of a row of database d, and the
\* names the row gives unless the other database gave one later; g is giver.
Covers(c, g, d, r) ==
    /\ r.vports \subseteq c.vports
    /\ \A x \in Dev : r.dev[x] # NONE /\ ~DpdkDisable =>
          /\ c.dev[x] # NONE
          /\ g[x] = d => c.dev[x] = r.dev[x]

\* A row of a subscribed database is in the configuration, or the daemon will
\* still read it: a notification waits for the next round or for this one, or
\* the row was found when subscribing and has not been popped.  A row that was
\* found and is outdated before it is popped has a notification after it.
Noticed ==
    /\ pc # "drain" => ready = NoKeys
    /\ \A d \in Db :
         Subscribed(d) =>
            /\ \/ "vpp" \in inbox[d] \/ "vpp" \in ready[d] \/ preload[d] = NONE
               \/ preload[d] = db[d]
            /\ db[d] \in Row =>
               \/ "vpp" \in inbox[d] \/ "vpp" \in ready[d] \/ preload[d] = db[d]
               \/ Covers(cfg, giver, d, db[d])

LEMMA MergeCovers ==
    ASSUME NEW c \in Config, NEW g, NEW d, NEW r \in Row
    PROVE  Covers(Merge(c, r), g, d, r)
BY DEF Merge, Config, Row, Covers

\* A row that names a device takes it from the database that named it before.
LEMMA MergeKeeps ==
    ASSUME NEW c \in Config, NEW r \in Row, NEW q \in Row, NEW d, NEW g, NEW h,
           \A x \in Dev : IF r.dev[x] # NONE THEN h[x] # d ELSE h[x] = d => g[x] = d,
           Covers(c, g, d, q)
    PROVE  Covers(Merge(c, r), h, d, q)
BY DEF Merge, Config, Row, Covers

LEMMA PreparedKeeps ==
    ASSUME NEW c \in Config, NEW q \in Row, NEW g, NEW d, Covers(c, g, d, q)
    PROVE  Covers(Prepared(c), g, d, q)
BY SMTT(40) DEF Prepared, WithoutDpdk, Config, Row, Covers

\* Draining a subscription keeps what rows of the other database left there,
\* and takes in its own row if there was anything to read.
LEMMA DrainCovers ==
    ASSUME Typed, NEW d \in Db, Drain(d), ~Exit("down")
    PROVE  /\ \A e \in Db \ {d}, q \in Row :
                 Covers(cfg, giver, e, q) => Covers(cfg', giver', e, q)
           /\ preload[d] = NONE /\ "vpp" \notin ready[d] => UNCHANGED <<cfg, giver>>
           /\ ("vpp" \in ready[d] \/ preload[d] = db[d]) /\ db[d] \in Row =>
                 Covers(cfg', giver', d, db[d])
<1>1. /\ \A i \in DOMAIN Popped(d) : Popped(d)[i] \in Row
      /\ cfg' = MergeAll(cfg, Popped(d))
      /\ giver' = [x \in Dev |-> IF Names(Popped(d), x) THEN d ELSE giver[x]]
  BY Drained
<1>0. cfg \in Config /\ NONE \notin Row
  BY VppCfgdAssumption DEF Typed
<1>2. CASE Popped(d) = <<>>
  <2>1. cfg' = cfg
    BY <1>1, <1>2 DEF MergeAll
  <2>2. giver' = giver
    <3>1. \A x \in Dev : ~Names(<<>>, x)
      BY DEF Names
    <3>. QED BY <1>1, <1>2, <3>1, Zenon DEF Typed
  <2>3. ~("vpp" \in ready[d] /\ db[d] # NONE) /\ preload[d] = NONE
    BY <1>2, PoppedForms, Tuples, SMTT(40)
  <2>. QED BY <1>0, <2>1, <2>2, <2>3
<1>3. ASSUME NEW r, r \in {preload[d], db[d]}, Popped(d) = <<r>>,
             ("vpp" \in ready[d] \/ preload[d] = db[d]) /\ db[d] \in Row => r = db[d],
             preload[d] # NONE \/ "vpp" \in ready[d]
      PROVE  /\ \A e \in Db \ {d}, q \in Row :
                   Covers(cfg, giver, e, q) => Covers(cfg', giver', e, q)
             /\ ("vpp" \in ready[d] \/ preload[d] = db[d]) /\ db[d] \in Row =>
                 Covers(cfg', giver', d, db[d])
  <2>1. r \in Row /\ cfg' = Merge(cfg, r)
    BY <1>1, <1>3, Tuples DEF MergeAll
  <2>2. \A x \in Dev : giver'[x] = IF r.dev[x] # NONE THEN d ELSE giver[x]
    BY <1>1, <1>3, Tuples, SMTT(40) DEF Names
  <2>3. ASSUME NEW e \in Db \ {d}, NEW q \in Row, Covers(cfg, giver, e, q)
        PROVE  Covers(cfg', giver', e, q)
    <3>1. \A x \in Dev : IF r.dev[x] # NONE THEN giver'[x] # e ELSE giver'[x] = e => giver[x] = e
      BY <2>2
    <3>. QED BY <1>0, <2>1, <2>3, <3>1, MergeKeeps
  <2>. QED BY <1>0, <1>3, <2>1, <2>3, MergeCovers
<1>4. CASE Popped(d) = <<preload[d], db[d]>>
  <2>1. preload[d] \in Row /\ db[d] \in Row
        /\ cfg' = Merge(Merge(cfg, preload[d]), db[d])
    BY <1>1, <1>4, Tuples DEF MergeAll
  <2>2. PICK c \in Config : c = Merge(cfg, preload[d])
    BY <1>0, <2>1, MergeTyped
  <2>3. \A x \in Dev :
           giver'[x] = IF preload[d].dev[x] # NONE \/ db[d].dev[x] # NONE THEN d ELSE giver[x]
    BY <1>1, <1>4, Tuples, SMTT(40) DEF Names
  <2>4. ASSUME NEW e \in Db \ {d}, NEW q \in Row, Covers(cfg, giver, e, q)
        PROVE  Covers(cfg', giver', e, q)
    <3>1. \A x \in Dev : IF preload[d].dev[x] # NONE THEN giver'[x] # e
                                                     ELSE giver'[x] = e => giver[x] = e
      BY <2>3
    <3>2. Covers(c, giver', e, q)
      BY <1>0, <2>1, <2>2, <2>4, <3>1, MergeKeeps
    <3>3. \A x \in Dev : IF db[d].dev[x] # NONE THEN giver'[x] # e
                                                ELSE giver'[x] = e => giver'[x] = e
      BY <2>3
    <3>. QED BY <2>1, <2>2, <3>2, <3>3, MergeKeeps
  <2>5. Covers(cfg', giver', d, db[d])
    BY <2>1, <2>2, MergeCovers
  <2>6. preload[d] # NONE
    BY <1>0, <2>1
  <2>. QED BY <2>4, <2>5, <2>6
<1>. QED BY <1>0, <1>2, <1>3, <1>4, PoppedForms, ZenonT(40)

LEMMA NoticedInit == Init => Noticed
BY DEF Init, Noticed, Subscribed, Up, Db

LEMMA NoticedNext == Typed /\ Noticed /\ [Next]_vars => Noticed'
<1>. SUFFICES ASSUME Typed, Noticed, [Next]_vars PROVE Noticed'
  OBVIOUS
<1>1. ASSUME NEW e \in {"down", "raised"}, Exit(e) PROVE Noticed'
  BY <1>1 DEF Exit, Noticed, Subscribed, Up, Db
<1>2. ASSUME NEW d \in Db, DelRow(d) \/ TouchOther(d) \/ \E r \in Row \cup {BAD} : SetRow(d, r)
      PROVE  Noticed'
  <2>1. /\ UNCHANGED <<ready, preload, pc, cfg, giver>>
        /\ \A e \in Db : inbox[e] \subseteq inbox'[e]
        /\ \A e \in Db \ {d} : db'[e] = db[e]
    BY <1>2 DEF DelRow, TouchOther, SetRow, Notify, Typed
  <2>2. db'[d] = db[d] \/ (Subscribed(d) => "vpp" \in inbox'[d])
    BY <1>2 DEF DelRow, TouchOther, SetRow, Notify, Typed
  <2>3. NONE \notin Row
    BY VppCfgdAssumption, SMTT(40)
  <2>. QED BY <2>1, <2>2, <2>3 DEF Noticed, Subscribed, Covers
<1>3. CASE Start
  BY <1>3, SMTT(40) DEF Start, Noticed, Subscribed, Up, Db
<1>4. ASSUME NEW d \in Db, Subscribe(d) PROVE Noticed'
  <2>1. /\ UNCHANGED <<db, ready, cfg, giver>> /\ pc = d /\ pc' \in {"STATE_DB", "select"}
        /\ preload'[d] = db[d]
        /\ \A e \in Db \ {d} : preload'[e] = preload[e] /\ inbox'[e] = inbox[e]
    BY <1>4 DEF Subscribe, Typed
  <2>2. \A e \in Db \ {d} : Subscribed(e)' => Subscribed(e)
    BY <1>4 DEF Subscribe, Subscribed, Up, Db
  <2>3. pc # "drain" /\ pc' # "drain"
    BY <2>1 DEF Db
  <2>4. ready' = NoKeys
    BY <2>1, <2>3 DEF Noticed
  <2>5. ASSUME NEW e \in Db, Subscribed(e)'
        PROVE  /\ \/ "vpp" \in inbox'[e] \/ "vpp" \in ready'[e] \/ preload'[e] = NONE
                  \/ preload'[e] = db'[e]
               /\ db'[e] \in Row =>
                  \/ "vpp" \in inbox'[e] \/ "vpp" \in ready'[e] \/ preload'[e] = db'[e]
                  \/ Covers(cfg', giver', e, db'[e])
    <3>1. CASE e = d
      BY <2>1, <3>1
    <3>2. CASE e # d
      BY <2>1, <2>2, <2>5, <3>2 DEF Noticed
    <3>. QED BY <3>1, <3>2
  <2>. QED BY <2>4, <2>5, Zenon DEF Noticed, Covers
<1>5. ASSUME NEW d \in Db, Drain(d) PROVE Noticed'
  <2>1. CASE Exit("down")
    BY <1>1, <2>1
  <2>2. CASE ~Exit("down")
    <3>1. /\ \A e \in Db \ {d}, q \in Row :
                Covers(cfg, giver, e, q) => Covers(cfg', giver', e, q)
          /\ preload[d] = NONE /\ "vpp" \notin ready[d] => UNCHANGED <<cfg, giver>>
          /\ ("vpp" \in ready[d] \/ preload[d] = db[d]) /\ db[d] \in Row =>
                 Covers(cfg', giver', d, db[d])
      BY <1>5, <2>2, DrainCovers
    <3>2. /\ pc = "drain" /\ UNCHANGED <<db, inbox, pc>> /\ preload'[d] = NONE
          /\ \A e \in Db \ {d} : ready'[e] = ready[e] /\ preload'[e] = preload[e]
      BY <1>5, <2>2, Drained DEF Typed
    <3>3. ASSUME NEW e \in Db, Subscribed(e)
          PROVE  /\ \/ "vpp" \in inbox[e] \/ "vpp" \in ready'[e] \/ preload'[e] = NONE
                    \/ preload'[e] = db[e]
                 /\ db[e] \in Row =>
                    \/ "vpp" \in inbox[e] \/ "vpp" \in ready'[e] \/ preload'[e] = db[e]
                    \/ Covers(cfg', giver', e, db[e])
      <4>0. /\ \/ "vpp" \in inbox[e] \/ "vpp" \in ready[e] \/ preload[e] = NONE
               \/ preload[e] = db[e]
            /\ db[e] \in Row =>
               \/ "vpp" \in inbox[e] \/ "vpp" \in ready[e] \/ preload[e] = db[e]
               \/ Covers(cfg, giver, e, db[e])
        BY <3>3 DEF Noticed
      <4>1. CASE e = d
        BY <3>1, <3>2, <4>0, <4>1, SMTT(40)
      <4>2. CASE e # d
        BY <3>1, <3>2, <4>0, <4>2, SMTT(40)
      <4>. QED BY <4>1, <4>2
    <3>. QED BY <3>2, <3>3 DEF Noticed, Subscribed, Covers
  <2>. QED BY <2>1, <2>2
<1>6. CASE Select
  <2>1. \A d \in Db : Subscribed(d)' <=> Subscribed(d)
    BY <1>6 DEF Select, Subscribed, Up, Db
  <2>2. ready = NoKeys
    BY <1>6, SMTT(40) DEF Select, Noticed
  <2>3. ASSUME NEW d \in Db, Subscribed(d)
        PROVE  /\ "vpp" \in ready'[d] \/ preload[d] = NONE \/ preload[d] = db[d]
               /\ db[d] \in Row =>
                  \/ "vpp" \in ready'[d] \/ preload[d] = db[d]
                  \/ Covers(cfg, giver, d, db[d])
    BY <1>6, <2>2, <2>3 DEF Select, Noticed, NoKeys
  <2>4. pc' = "drain" /\ UNCHANGED <<db, preload, cfg, giver>>
    BY <1>6 DEF Select
  <2>. QED BY <2>1, <2>3, <2>4 DEF Noticed, Covers
<1>7. CASE Commit
  <2>1. CASE Exit("raised")
    BY <1>1, <2>1, SMTT(40)
  <2>2. CASE ~Exit("raised")
    <3>1. /\ pc = "drain" /\ pc' = "write" /\ cfg' = Prepared(cfg)
          /\ UNCHANGED <<db, inbox, ready, preload, giver>>
          /\ \A d \in Db : ready[d] = {}
      BY <1>7, <2>2 DEF Commit, Undrained
    <3>2. ready = NoKeys
      BY <3>1 DEF Typed, NoKeys
    <3>3. \A d \in Db : Subscribed(d)' <=> Subscribed(d)
      BY <3>1 DEF Subscribed, Up, Db
    <3>4. \A d \in Db, q \in Row : Covers(cfg, giver, d, q) => Covers(cfg', giver, d, q)
      BY <3>1, PreparedKeeps DEF Typed
    <3>. QED BY <3>1, <3>2, <3>3, <3>4 DEF Noticed, Covers
  <2>. QED BY <2>1, <2>2
<1>8. CASE Open \/ Write
  <2>1. /\ UNCHANGED <<db, inbox, ready, preload, cfg, giver>>
        /\ pc \in {"write", "truncated"} /\ pc' \in {"write", "truncated", "select"}
    BY <1>8 DEF Open, Write
  <2>2. \A d \in Db : Subscribed(d)' <=> Subscribed(d)
    BY <2>1 DEF Subscribed, Up, Db
  <2>. QED BY <2>1, <2>2 DEF Noticed, Covers
<1>9. CASE SelectTimeout \/ UNCHANGED vars
  BY <1>9 DEF SelectTimeout, vars, Noticed, Subscribed, Covers
<1>10. CASE Kill
  BY <1>1, <1>10 DEF Kill
<1>. QED BY <1>2, <1>3, <1>4, <1>5, <1>6, <1>7, <1>8, <1>9, <1>10 DEF Next, DaemonStep

\* When the daemon has nothing left to read, every port and every device of the
\* rows is in the files, and no older row has won, however database changes,
\* selects, pops and deaths of the daemon interleave (QuietFilesCoverRows).
THEOREM NoRowMissed == Spec => []QuietFilesCoverRows
<1>1. Typed /\ Written /\ Noticed => QuietFilesCoverRows
  <2>. SUFFICES ASSUME Typed, Written, Noticed, NEW d \in Db,
                       pc = "select", inbox[d] = {}, preload[d] = NONE, db[d] \in Row
                PROVE  /\ \A p \in db[d].vports : Created(p)
                       /\ \A x \in Dev : db[d].dev[x] # NONE /\ ~DpdkDisable =>
                             /\ file["startup"].text.dev[x] # NONE
                             /\ giver[x] = d => file["startup"].text.dev[x] = db[d].dev[x]
    BY DEF QuietFilesCoverRows
  <2>1. Covers(cfg, giver, d, db[d])
    <3>1. NONE \notin Row
      BY VppCfgdAssumption
    <3>2. Subscribed(d) /\ ready[d] = {}
      BY DEF Noticed, Subscribed, Up, Db, NoKeys
    <3>. QED BY <3>1, <3>2 DEF Noticed
  <2>2. CASE cfg = Template
    BY <2>1, <2>2 DEF Template, NoDev, Covers
  <2>3. CASE cfg # Template
    <3>1. file["bootup"] = Whole("bootup", cfg) /\ file["startup"] = Whole("startup", cfg)
      BY <2>3 DEF Written, File
    <3>2. /\ file["bootup"].state = "whole" /\ file["bootup"].text = cfg.vports
          /\ file["startup"].text.dev = cfg.dev
      BY <3>1 DEF Whole, Text
    <3>. QED BY <2>1, <3>2 DEF Covers, Created
  <2>. QED BY <2>2, <2>3
<1>. QED BY <1>1, TypedInit, TypedNext, WrittenInit, WrittenNext, NoticedInit, NoticedNext,
            PTL DEF Spec

-----------------------------------------------------------------------------
(* Types of the rest *)

\* todo is empty except during a commit, and a file holds what some
\* configuration rendered to, unless a commit was cut short.
Shaped ==
    /\ events \in 0..MaxEvents /\ loaded \in BOOLEAN
    /\ pc \notin {"write", "truncated"} => todo = <<>>
    /\ \A f \in File : file[f] \in {Missing, Torn} \cup {Whole(f, c) : c \in Config}

\* What is left of Order after its first n files.
LEMMA SuffixOf ==
    ASSUME NEW n \in 0..3, NEW t \in Seq(File), Len(t) = 3 - n,
           \A i \in 1..(3 - n) : t[i] = Order[n + i]
    PROVE  SubSeq(Order, n + 1, 3) = t
<1>1. \A i \in 1..3 : Order[i] \in File
  BY DEF Order, File
<1>2. PICK m \in Int : m = n + 1
  OBVIOUS
<1>3. \A i \in m..3 : Order[i] \in File
  BY <1>1, <1>2
<1>4. PICK s : s = SubSeq(Order, m, 3)
  BY Zenon
<1>5. /\ s \in Seq(File)
      /\ Len(s) = IF m <= 3 THEN 3 - m + 1 ELSE 0
      /\ \A i \in 1..(3 - m + 1) : s[i] = Order[m + i - 1]
  BY <1>2, <1>3, <1>4, SubSeqProperties, SMTT(40)
<1>6. Len(s) = Len(t) /\ \A i \in 1..Len(s) : s[i] = t[i]
  <2>1. Len(s) = 3 - n
    BY <1>2, <1>5
  <2>2. ASSUME NEW i \in 1..(3 - n) PROVE s[i] = t[i]
    <3>1. i \in 1..(3 - m + 1) /\ m + i - 1 = n + i
      BY <1>2
    <3>. QED BY <1>5, <3>1
  <2>. QED BY <2>1, <2>2
<1>7. s = t
  BY <1>5, <1>6, SeqEqual
<1>. QED BY <1>2, <1>4, <1>7

LEMMA Suffixes ==
    /\ SubSeq(Order, 0 + 1, 3) = <<"json", "bootup", "startup">>
    /\ SubSeq(Order, 1 + 1, 3) = <<"bootup", "startup">>
    /\ SubSeq(Order, 2 + 1, 3) = <<"startup">>
    /\ SubSeq(Order, 3 + 1, 3) = <<>>
<1>1. /\ Order[1] = "json" /\ Order[2] = "bootup" /\ Order[3] = "startup"
      /\ "json" \in File /\ "bootup" \in File /\ "startup" \in File
  BY DEF Order, File
<1>2. SubSeq(Order, 0 + 1, 3) = <<"json", "bootup", "startup">>
  <2>1. <<"json", "bootup", "startup">> \in Seq(File)
    BY <1>1
  <2>2. /\ 0 \in 0..3 /\ Len(<<"json", "bootup", "startup">>) = 3 - 0
        /\ \A i \in 1..(3 - 0) : <<"json", "bootup", "startup">>[i] = Order[0 + i]
    BY <1>1
  <2>. QED BY <2>1, <2>2, SuffixOf, Zenon
<1>3. SubSeq(Order, 1 + 1, 3) = <<"bootup", "startup">>
  <2>1. <<"bootup", "startup">> \in Seq(File)
    BY <1>1
  <2>2. /\ 1 \in 0..3 /\ Len(<<"bootup", "startup">>) = 3 - 1
        /\ \A i \in 1..(3 - 1) : <<"bootup", "startup">>[i] = Order[1 + i]
    BY <1>1
  <2>. QED BY <2>1, <2>2, SuffixOf, Zenon
<1>4. SubSeq(Order, 2 + 1, 3) = <<"startup">>
  <2>1. <<"startup">> \in Seq(File)
    BY <1>1
  <2>2. /\ 2 \in 0..3 /\ Len(<<"startup">>) = 3 - 2
        /\ \A i \in 1..(3 - 2) : <<"startup">>[i] = Order[2 + i]
    BY <1>1
  <2>. QED BY <2>1, <2>2, SuffixOf, Zenon
<1>5. SubSeq(Order, 3 + 1, 3) = <<>>
  BY SubSeqEmpty
<1>. QED BY <1>2, <1>3, <1>4, <1>5

LEMMA ShapedInit == Init => Shaped
<1>. SUFFICES ASSUME Init PROVE Shaped
  OBVIOUS
<1>1. events \in 0..MaxEvents
  BY VppCfgdAssumption DEF Init
<1>2. \A f \in File : file[f] = Missing
  BY DEF Init
<1>3. loaded \in BOOLEAN /\ todo = <<>>
  BY Zenon DEF Init
<1>. QED BY <1>1, <1>2, <1>3 DEF Shaped

LEMMA ShapedNext == Typed /\ Written /\ Shaped /\ [Next]_vars => Shaped'
<1>. SUFFICES ASSUME Typed, Written, Shaped, [Next]_vars PROVE Shaped'
  OBVIOUS
<1>1. ASSUME NEW e \in {"down", "raised"}, Exit(e), events' \in 0..MaxEvents PROVE Shaped'
  BY <1>1, Zenon DEF Exit, Shaped
<1>2. CASE /\ UNCHANGED <<loaded, todo, file>> /\ events' \in 0..MaxEvents
           /\ pc' \notin {"write", "truncated"} => pc \notin {"write", "truncated"}
  BY <1>2 DEF Shaped
<1>3. events < MaxEvents /\ events' = events + 1 => events' \in 0..MaxEvents
  BY VppCfgdAssumption DEF Shaped
<1>4. events' = events => events' \in 0..MaxEvents
  BY DEF Shaped
<1>5. ASSUME NEW d \in Db, DelRow(d) \/ TouchOther(d) \/ \E r \in Row \cup {BAD} : SetRow(d, r)
      PROVE  Shaped'
  BY <1>2, <1>3, <1>5 DEF DelRow, TouchOther, SetRow, Notify
<1>6. CASE Start \/ SelectTimeout \/ UNCHANGED vars \/ Select
  BY <1>2, <1>4, <1>6 DEF Start, SelectTimeout, vars, Select
<1>7. ASSUME NEW d \in Db, Subscribe(d) PROVE Shaped'
  BY <1>2, <1>4, <1>7 DEF Subscribe, Db
<1>8. ASSUME NEW d \in Db, Drain(d) PROVE Shaped'
  <2>1. CASE Exit("down")
    BY <1>1, <1>4, <1>8, <2>1 DEF Drain
  <2>2. CASE ~Exit("down")
    BY <1>8, <2>2, Zenon DEF Drain, Shaped
  <2>. QED BY <2>1, <2>2
<1>9. CASE Commit
  <2>1. CASE Exit("raised")
    BY <1>1, <1>4, <1>9, <2>1 DEF Commit
  <2>2. CASE ~Exit("raised")
    BY <1>9, <2>2 DEF Commit, Shaped
  <2>. QED BY <2>1, <2>2
<1>10. CASE Kill
  BY <1>1, <1>3, <1>10 DEF Kill
<1>11. CASE Open
  <2>1. PICK h \in File : file' = [file EXCEPT ![h] = Torn]
    BY <1>11, NextFile, Zenon DEF Open, Written
  <2>2. \A f \in File : file'[f] \in {Torn, file[f]}
    BY <2>1 DEF Typed
  <2>. QED BY <1>11, <2>2 DEF Open, Shaped
<1>12. CASE Write
  <2>1. PICK h \in File : file' = [file EXCEPT ![h] = Whole(h, cfg)]
    BY <1>12, NextFile, Zenon DEF Write, Written
  <2>2. \A f \in File : file'[f] \in {Whole(f, cfg), file[f]}
    BY <2>1 DEF Typed
  <2>3. cfg \in Config /\ loaded' \in BOOLEAN /\ events' = events
        /\ (pc' \notin {"write", "truncated"} => todo' = <<>>)
    BY <1>12 DEF Write, Typed
  <2>. QED BY <2>2, <2>3 DEF Shaped
<1>. QED BY <1>5, <1>6, <1>7, <1>8, <1>9, <1>10, <1>11, <1>12 DEF Next, DaemonStep

\* Every file is missing, torn, or what gen_vpp_conf and vpp_vports_config
\* made of a configuration, and a commit always has a suffix of its three
\* files left to write (TypeOK).
THEOREM DaemonTyped == Spec => []TypeOK
<1>1. Typed /\ Written /\ Shaped => TypeOK
  <2>. SUFFICES ASSUME Typed, Written, Shaped PROVE TypeOK
    OBVIOUS
  <2>1. \E n \in 0..3 : todo = SubSeq(Order, n + 1, 3)
    <3>1. \/ todo = <<"json", "bootup", "startup">> \/ todo = <<"bootup", "startup">>
          \/ todo = <<"startup">> \/ todo = <<>>
      BY DEF Written, Progress, Shaped
    <3>2. 0 \in 0..3 /\ 1 \in 0..3 /\ 2 \in 0..3 /\ 3 \in 0..3
      OBVIOUS
    <3>. QED BY <3>1, <3>2, Suffixes, Zenon
  <2>. QED BY <2>1, SMTT(40) DEF Typed, Shaped, TypeOK
<1>. QED BY <1>1, TypedInit, TypedNext, WrittenInit, WrittenNext, ShapedInit, ShapedNext,
            PTL DEF Spec

-----------------------------------------------------------------------------
(* The template object *)

\* What the steps of one process do to a configuration: nothing is taken out,
\* and the plugin is never enabled again.
Extends(c, q) ==
    /\ c.vports \subseteq q.vports
    /\ ~DpdkDisable => \A x \in Dev : c.dev[x] # NONE => q.dev[x] # NONE
    /\ c.plugin = "disable" => q.plugin = "disable"
    /\ (c.defaults <=> c.plugin = "enable") => (q.defaults <=> q.plugin = "enable")

LEMMA ExtendsItself == \A c : Extends(c, c)
BY DEF Extends

LEMMA ExtendsTrans ==
    ASSUME NEW a, NEW b, NEW c, Extends(a, b), Extends(b, c)
    PROVE  Extends(a, c)
BY DEF Extends

LEMMA MergeExtends ==
    ASSUME NEW c \in Config, NEW r \in Row
    PROVE  Extends(c, Merge(c, r))
BY DEF Merge, Config, Row, Extends

LEMMA PreparedExtends == ASSUME NEW c \in Config PROVE Extends(c, Prepared(c))
BY DEF Prepared, WithoutDpdk, Config, Extends

LEMMA DrainExtends ==
    ASSUME Typed, NEW d \in Db, Drain(d), ~Exit("down")
    PROVE  Extends(cfg, cfg')
<1>1. /\ \A i \in DOMAIN Popped(d) : Popped(d)[i] \in Row
      /\ cfg' = MergeAll(cfg, Popped(d))
  BY Drained
<1>2. cfg \in Config
  BY DEF Typed
<1>3. CASE Popped(d) = <<>>
  BY <1>1, <1>3, ExtendsItself DEF MergeAll
<1>4. ASSUME NEW r, Popped(d) = <<r>> PROVE Extends(cfg, cfg')
  <2>1. r \in Row /\ cfg' = Merge(cfg, r)
    BY <1>1, <1>4, Tuples DEF MergeAll
  <2>. QED BY <1>2, <2>1, MergeExtends
<1>5. ASSUME NEW a, NEW b, Popped(d) = <<a, b>> PROVE Extends(cfg, cfg')
  <2>1. a \in Row /\ b \in Row /\ cfg' = Merge(Merge(cfg, a), b)
    BY <1>1, <1>5, Tuples DEF MergeAll
  <2>2. PICK c \in Config : c = Merge(cfg, a)
    BY <1>2, <2>1, MergeTyped, SMTT(40)
  <2>. QED BY <1>2, <2>1, <2>2, MergeExtends, ExtendsTrans, SMTT(40)
<1>. QED BY <1>3, <1>4, <1>5, PoppedForms

\* While the daemon lives, its configuration only ever grows.
LEMMA ConfigGrows ==
    ASSUME Typed, [Next]_vars, pc' \in Up
    PROVE  Extends(cfg, cfg')
<1>1. CASE cfg' = cfg
  BY <1>1, ExtendsItself
<1>2. ASSUME NEW e \in {"down", "raised"}, Exit(e) PROVE FALSE
  BY <1>2 DEF Exit, Up, Db
<1>3. ASSUME NEW d \in Db, Drain(d) PROVE Extends(cfg, cfg')
  BY <1>2, <1>3, DrainExtends
<1>4. CASE Commit
  BY <1>2, <1>4, PreparedExtends DEF Commit, Typed
<1>5. CASE Kill
  BY <1>2, <1>5 DEF Kill
<1>. QED BY <1>1, <1>3, <1>4, <1>5
         DEF Next, DaemonStep, DelRow, TouchOther, SetRow, Start, SelectTimeout, vars,
             Subscribe, Select, Open, Write

\* In one life of the daemon no port, no device and no decision to do without
\* DPDK is ever taken back, whatever becomes of the rows (MergedStays).
THEOREM RoundsAccumulate == Spec => MergedStays
<1>1. Typed /\ [Next]_vars =>
        ({pc, pc'} \subseteq Up =>
           /\ cfg.vports \subseteq cfg'.vports
           /\ ~DpdkDisable =>
                 \A x \in Dev : cfg.dev[x] # NONE => cfg'.dev[x] # NONE
           /\ cfg.plugin = "disable" => cfg'.plugin = "disable")
  BY ConfigGrows DEF Extends
<1>. QED BY <1>1, TypedInit, TypedNext, PTL DEF Spec, MergedStays

\* A configuration that may be written to startup.conf.
DpdkFits(c) == c.plugin = "enable" => ~DpdkDisable /\ \E x \in Dev : c.dev[x] # NONE

DpdkSound ==
    /\ cfg.defaults <=> cfg.plugin = "enable"
    /\ pc \in {"write", "truncated"} => DpdkFits(cfg)
    /\ DpdkOnlyWithDevices

LEMMA PreparedFits == ASSUME NEW c \in Config PROVE DpdkFits(Prepared(c))
BY DEF Prepared, WithoutDpdk, Config, DpdkFits

LEMMA DpdkInit == Init => DpdkSound
BY SMTT(40) DEF Init, DpdkSound, DpdkOnlyWithDevices, Template, File, Missing

LEMMA DpdkNext == Typed /\ Written /\ DpdkSound /\ [Next]_vars => DpdkSound'
<1>. SUFFICES ASSUME Typed, Written, DpdkSound, [Next]_vars PROVE DpdkSound'
  OBVIOUS
<1>1. (cfg.defaults <=> cfg.plugin = "enable")'
  <2>1. CASE pc' \in Up
    BY <2>1, ConfigGrows DEF Extends, DpdkSound
  <2>2. CASE cfg' = Template \/ cfg' = cfg
    BY <2>2 DEF Template, DpdkSound
  <2>3. ASSUME NEW d \in Db, Drain(d) PROVE pc' \in Up \/ cfg' = Template
    BY <2>3 DEF Drain, Exit, Up
  <2>4. CASE Commit
    BY <2>1, <2>2, <2>4 DEF Commit, Exit, Up
  <2>5. CASE Kill
    BY <2>2, <2>5, SMTT(40) DEF Kill, Exit
  <2>. QED BY <2>1, <2>2, <2>3, <2>4, <2>5, SMTT(40)
           DEF Next, DaemonStep, DelRow, TouchOther, SetRow, Start, SelectTimeout, vars,
               Subscribe, Select, Open, Write
<1>2. CASE UNCHANGED <<cfg, file>> /\ (pc' \in {"write", "truncated"} => pc \in {"write", "truncated"})
  BY <1>1, <1>2, SMTT(40) DEF DpdkSound, DpdkFits, DpdkOnlyWithDevices
<1>3. CASE UNCHANGED file /\ pc' \notin {"write", "truncated"}
  BY <1>1, <1>3 DEF DpdkSound, DpdkOnlyWithDevices
<1>4. ASSUME NEW d \in Db, Drain(d) PROVE DpdkSound'
  BY <1>3, <1>4 DEF Drain, Exit
<1>5. CASE Commit
  <2>1. CASE Exit("raised")
    BY <1>3, <2>1, SMTT(40) DEF Exit
  <2>2. CASE ~Exit("raised")
    <3>1. cfg' = Prepared(cfg) /\ cfg \in Config /\ UNCHANGED file
      BY <1>5, <2>2 DEF Commit, Typed
    <3>2. DpdkFits(cfg')
      BY <3>1, PreparedFits
    <3>. QED BY <1>1, <3>1, <3>2 DEF DpdkSound, DpdkFits, DpdkOnlyWithDevices
  <2>. QED BY <2>1, <2>2
<1>6. CASE Kill
  BY <1>3, <1>6 DEF Kill, Exit
<1>7. CASE Open
  <2>1. PICK h \in File : file' = [file EXCEPT ![h] = Torn]
    BY <1>7, NextFile, Zenon DEF Open, Written
  <2>2. file'["startup"] \in {Torn, file["startup"]} /\ Torn.state # "whole"
    BY <2>1 DEF Typed, File, Torn
  <2>3. DpdkOnlyWithDevices'
    BY <2>2 DEF DpdkSound, DpdkOnlyWithDevices
  <2>. QED BY <1>1, <1>7, <2>3 DEF Open, DpdkSound, DpdkFits
<1>8. CASE Write
  <2>1. PICK h \in File : file' = [file EXCEPT ![h] = Whole(h, cfg)]
    BY <1>8, NextFile, Zenon DEF Write, Written
  <2>2. file'["startup"] \in {Whole("startup", cfg), file["startup"]}
    BY <2>1 DEF Typed, File
  <2>3. LET t == Whole("startup", cfg).text
        IN  t.plugin = cfg.plugin /\ t.dev = cfg.dev /\ t.defaults = cfg.defaults
    BY DEF Whole, Text
  <2>4. UNCHANGED cfg /\ DpdkFits(cfg)
    BY <1>8, SMTT(40) DEF Write, DpdkSound
  <2>5. DpdkOnlyWithDevices'
    BY <2>2, <2>3, <2>4 DEF DpdkSound, DpdkOnlyWithDevices, DpdkFits
  <2>. QED BY <1>1, <2>4, <2>5 DEF DpdkSound, DpdkFits
<1>. QED BY <1>2, <1>3, <1>4, <1>5, <1>6, <1>7, <1>8, SMTT(40)
         DEF Next, DaemonStep, DelRow, TouchOther, SetRow, Start, SelectTimeout, vars,
             Subscribe, Select, Db

\* No startup.conf ever loads the DPDK plugin without a device for it, or
\* against DPDK_DISABLE, also across deaths of the daemon
\* (DpdkOnlyWithDevices).
THEOREM DpdkNeedsDevices == Spec => []DpdkOnlyWithDevices
<1>1. DpdkSound => DpdkOnlyWithDevices
  BY DEF DpdkSound
<1>. QED BY <1>1, TypedInit, TypedNext, WrittenInit, WrittenNext, DpdkInit, DpdkNext,
            PTL DEF Spec

-----------------------------------------------------------------------------
(* Rounds end *)

\* What a round has left to do: subscriptions to pop, then files to open and
\* to write.
RoundRank ==
    CASE pc = "drain" -> 7 + (IF Undrained("CONFIG_DB") THEN 1 ELSE 0)
                           + (IF Undrained("STATE_DB") THEN 1 ELSE 0)
      [] pc = "write" -> 2 * Len(todo)
      [] pc = "truncated" -> 2 * Len(todo) - 1
      [] OTHER -> 0

InRound == pc \in {"drain", "write", "truncated"}

\* Every step of a round brings it closer to its end, and nothing that
\* happens meanwhile makes it longer.
RoundAdvances ==
    [][InRound =>
         \/ RoundRank' < RoundRank
         \/ UNCHANGED <<ready, preload, pc, cfg, loaded, todo, file>>]_vars

\* Len(todo), which is what the commit has left to do.
LEMMA TodoLengths ==
    ASSUME Progress
    PROVE  \/ Len(todo) = 3 /\ Len(Tail(todo)) = 2
           \/ Len(todo) = 2 /\ Len(Tail(todo)) = 1
           \/ Len(todo) = 1 /\ Tail(todo) = <<>>
<1>1. CASE todo = <<"json", "bootup", "startup">>
  BY <1>1
<1>2. CASE todo = <<"bootup", "startup">>
  BY <1>2
<1>3. CASE todo = <<"startup">>
  BY <1>3
<1>. QED BY <1>1, <1>2, <1>3 DEF Progress

\* Each round of Runner.run comes to an end in at most nine steps of the
\* daemon, however many changes are notified meanwhile: they wait for the next
\* round (RoundAdvances).  With Noticed, which says that no change is lost,
\* this is the part of PortsReachBootup that does not depend on fairness.
THEOREM RoundsEnd == Spec => RoundAdvances
<1>1. ASSUME Typed, Written, [Next]_vars, InRound
      PROVE  \/ RoundRank' < RoundRank
             \/ UNCHANGED <<ready, preload, pc, cfg, loaded, todo, file>>
  <2>1. RoundRank \in Nat /\ RoundRank > 0
    <3>1. CASE pc = "drain"
      BY <3>1 DEF RoundRank
    <3>2. CASE pc \in {"write", "truncated"}
      <4>1. Len(todo) \in 1..3
        BY <1>1, <3>2, TodoLengths DEF Written
      <4>. QED BY <3>2, <4>1 DEF RoundRank
    <3>. QED BY <1>1, <3>1, <3>2 DEF InRound
  <2>2. ASSUME NEW e \in {"down", "raised"}, Exit(e) PROVE RoundRank' < RoundRank
    <3>1. RoundRank' = 0
      BY <2>2 DEF Exit, RoundRank
    <3>. QED BY <2>1, <3>1
  <2>3. ASSUME NEW d \in Db, Drain(d) PROVE RoundRank' < RoundRank
    <3>1. CASE Exit("down")
      BY <2>2, <3>1
    <3>2. CASE ~Exit("down")
      <4>1. pc = "drain" /\ pc' = "drain" /\ Undrained(d)
        BY <1>1, <2>3, <3>2, Drained, SMTT(40) DEF Drain
      <4>2. ready'[d] = {} /\ preload'[d] = NONE
            /\ \A e \in Db \ {d} : ready'[e] = ready[e] /\ preload'[e] = preload[e]
        BY <1>1, <2>3, <3>2, Drained DEF Typed
      <4>3. ~Undrained(d)' /\ \A e \in Db \ {d} : Undrained(e)' <=> Undrained(e)
        BY <4>2 DEF Undrained
      <4>. QED BY <4>1, <4>3, SMTT(40) DEF RoundRank, Db
    <3>. QED BY <3>1, <3>2
  <2>4. CASE Commit
    <3>1. CASE Exit("raised")
      BY <2>2, <3>1
    <3>2. CASE ~Exit("raised")
      <4>1. pc = "drain" /\ pc' = "write" /\ todo' = Order
        BY <2>4, <3>2 DEF Commit
      <4>2. Len(todo') = 3
        BY <4>1 DEF Order
      <4>. QED BY <4>1, <4>2 DEF RoundRank
    <3>. QED BY <3>1, <3>2
  <2>5. CASE Open
    <3>1. pc = "write" /\ pc' = "truncated" /\ todo' = todo
      BY <2>5 DEF Open
    <3>2. Len(todo) \in Nat
      BY <1>1, <3>1, TodoLengths DEF Written
    <3>. QED BY <3>1, <3>2 DEF RoundRank
  <2>6. CASE Write
    <3>1. /\ pc = "truncated" /\ todo' = Tail(todo)
          /\ pc' = IF todo' = <<>> THEN "select" ELSE "write"
      BY <2>6 DEF Write
    <3>2. \/ Len(todo) = 3 /\ Len(todo') = 2
          \/ Len(todo) = 2 /\ Len(todo') = 1
          \/ Len(todo) = 1 /\ todo' = <<>>
      BY <1>1, <3>1, TodoLengths DEF Written
    <3>. QED BY <3>1, <3>2 DEF RoundRank
  <2>7. CASE Kill
    BY <2>2, <2>7 DEF Kill
  <2>. QED BY <1>1, <2>3, <2>4, <2>5, <2>6, <2>7
           DEF Next, DaemonStep, DelRow, TouchOther, SetRow, Start, SelectTimeout, vars,
               Subscribe, Select, InRound, Db
<1>. QED BY <1>1, TypedInit, TypedNext, WrittenInit, WrittenNext, PTL
         DEF Spec, RoundAdvances

-----------------------------------------------------------------------------
(* When commit raises *)

\* No row of PLATFORM but vpp is there or changes, and no row is deleted.
OnlyVpp == \A d \in Db : "other" \notin inbox[d]
RowsStay == \A d \in Db : db[d] # NONE => db'[d] # NONE

\* Every notified row is there to be read, so that every round reads one.
Readable ==
    /\ \A d \in Db : inbox[d] \subseteq {"vpp"} /\ ready[d] \subseteq {"vpp"}
    /\ \A d \in Db : inbox[d] # {} \/ ready[d] # {} => db[d] # NONE
    /\ pc = "drain" => loaded \/ \E d \in Db : Undrained(d)
    /\ pc # "raised"

LEMMA ExitReadable ==
    ASSUME Exit("down") PROVE Readable'
BY DEF Exit, Readable, NoKeys

\* A subscription with something to pop yields a row.
LEMMA DrainLoads ==
    ASSUME Typed, Readable, NEW d \in Db, Drain(d), ~Exit("down")
    PROVE  loaded' = TRUE
<1>1. Undrained(d) /\ loaded' = (loaded \/ Popped(d) # <<>>)
  BY DEF Drain
<1>2. preload[d] # NONE \/ ("vpp" \in ready[d] /\ db[d] # NONE)
  BY <1>1 DEF Undrained, Readable
<1>3. Popped(d) # <<>>
  <2>1. Popped(d) \in {<<db[d]>>, <<preload[d]>>, <<preload[d], db[d]>>}
    BY <1>2, PoppedForms
  <2>2. <<db[d]>> # <<>> /\ <<preload[d]>> # <<>> /\ <<preload[d], db[d]>> # <<>>
    OBVIOUS
  <2>. QED BY <2>1, <2>2, Zenon
<1>. QED BY <1>1, <1>3, Zenon

LEMMA ReadableNext ==
    Typed /\ Readable /\ [Next]_vars /\ OnlyVpp' /\ [RowsStay]_vars => Readable'
<1>. SUFFICES ASSUME Typed, Readable, [Next]_vars, OnlyVpp', [RowsStay]_vars
              PROVE  Readable'
  OBVIOUS
<1>1. ASSUME NEW d \in Db, DelRow(d) \/ TouchOther(d) \/ \E r \in Row \cup {BAD} : SetRow(d, r)
      PROVE  Readable'
  <2>1. UNCHANGED <<ready, preload, pc, loaded>> /\ inbox' \in [Db -> SUBSET Key]
        /\ \A e \in Db \ {d} : inbox'[e] = inbox[e] /\ db'[e] = db[e]
    BY <1>1 DEF DelRow, TouchOther, SetRow, Notify, Typed, Key
  <2>2. inbox'[d] \subseteq {"vpp"}
    BY <2>1 DEF OnlyVpp, Key
  <2>3. inbox'[d] # {} \/ ready'[d] # {} => db'[d] # NONE
    <3>1. CASE \E r \in Row \cup {BAD} : SetRow(d, r)
      BY <3>1, VppCfgdAssumption DEF SetRow, Typed
    <3>2. CASE DelRow(d)
      <4>1. db[d] # NONE /\ db'[d] = NONE
        BY <3>2 DEF DelRow, Typed
      <4>. QED BY <4>1 DEF RowsStay, vars
    <3>3. CASE TouchOther(d)
      <4>1. "other" \in inbox'[d]
        BY <3>3 DEF TouchOther, Notify, Typed
      <4>. QED BY <4>1 DEF OnlyVpp
    <3>. QED BY <1>1, <3>1, <3>2, <3>3
  <2>. QED BY <2>1, <2>2, <2>3 DEF Readable, Undrained
<1>2. CASE Start \/ SelectTimeout \/ UNCHANGED vars \/ Open \/ Write
  <2>1. UNCHANGED <<db, inbox, ready, preload>> /\ pc' # "raised"
        /\ (pc' = "drain" => pc = "drain" /\ loaded' = loaded)
    BY <1>2 DEF Start, SelectTimeout, vars, Open, Write, Readable
  <2>. QED BY <2>1 DEF Readable, Undrained
<1>3. CASE Kill
  BY <1>3, ExitReadable DEF Kill
<1>4. ASSUME NEW d \in Db, Subscribe(d) PROVE Readable'
  <2>1. UNCHANGED <<db, ready>> /\ pc' \in {"STATE_DB", "select"}
        /\ \A e \in Db \ {d} : inbox'[e] = inbox[e]
    BY <1>4 DEF Subscribe, Typed
  <2>2. inbox'[d] = {}
    <3>1. PICK others \in SUBSET {"other"} : inbox'[d] = others
      BY <1>4 DEF Subscribe, Typed
    <3>2. "other" \notin inbox'[d]
      BY DEF OnlyVpp
    <3>. QED BY <3>1, <3>2
  <2>. QED BY <2>1, <2>2 DEF Readable
<1>5. ASSUME NEW d \in Db, Drain(d) PROVE Readable'
  <2>1. CASE Exit("down")
    BY <2>1, ExitReadable
  <2>2. CASE ~Exit("down")
    <3>1. loaded' = TRUE
      BY <1>5, <2>2, DrainLoads, ZenonT(40)
    <3>2. UNCHANGED <<db, inbox>> /\ pc' = "drain"
          /\ \A e \in Db : ready'[e] \subseteq ready[e]
      BY <1>5, <2>2, Drained DEF Typed
    <3>. QED BY <3>1, <3>2 DEF Readable
  <2>. QED BY <2>1, <2>2
<1>6. CASE Select
  <2>1. \E d \in Db : Undrained(d)'
    BY <1>6, ZenonT(40) DEF Select, Undrained
  <2>. QED BY <1>6, <2>1, ZenonT(40) DEF Select, Readable, NoKeys
<1>7. CASE Commit
  BY <1>7, Zenon DEF Commit, Readable, Undrained
<1>. QED BY <1>1, <1>2, <1>3, <1>4, <1>5, <1>6, <1>7 DEF Next, DaemonStep

\* Where CommitReturns fails it is because of a deleted row or of another row
\* of PLATFORM: with neither, commit is only ever called on a configuration,
\* whatever else happens in the databases and to the daemon.
THEOREM RaisesOnlyWithoutRow ==
    Spec /\ []OnlyVpp /\ [][RowsStay]_vars => []CommitReturns
<1>1. Init => Readable
  BY DEF Init, Readable, NoKeys
<1>2. Readable => CommitReturns
  BY DEF Readable, CommitReturns
<1>. QED BY <1>1, <1>2, ReadableNext, TypedInit, TypedNext, PTL DEF Spec

=============================================================================
