----------------------------- MODULE LinkKeyStore -----------------------------
(***************************************************************************)
(* Where the link keys of paired headsets live and how they get there: the *)
(* file-backed database link_keys.txt of btstack_link_key_db_file.c, the   *)
(* copy in profiles.json that ProfileManager keeps, and the session worker *)
(* that seeds the first from the second and persists the second from the   *)
(* first.  Two front ends write profiles.json: the wxWidgets frame has its *)
(* own ProfileManager, loaded once and saved whole; the WinUI window never *)
(* touches the file and starts sessions from profiles without a key.       *)
(*                                                                         *)
(* The process may die at every step.  link_keys.txt is replaced by a      *)
(* rename of what could be written, profiles.json is truncated and then    *)
(* written.                                                                *)
(***************************************************************************)
EXTENDS Naturals, Sequences, SequencesExt, FiniteSets

CONSTANTS
    Devices,        \* headset addresses
    MAX_LINK_KEYS,  \* capacity of the database
    MaxKey,         \* bound: keys generated by pairing, and factory resets
    MaxProfiles     \* bound: profiles the user creates

ASSUME KeyStoreAssumption ==
    /\ MAX_LINK_KEYS \in Nat \ {0}
    /\ MaxKey \in Nat
    /\ MaxProfiles \in Nat

VARIABLES
    frontEnd,      \* the program that runs: "wx" or "winui"
    pc,            \* the session worker; "off" when no process runs
    ready,         \* btstack_ready_: the stack is up, the database open
    entries,       \* the database's memory: sequence of [addr, key]
    saving,        \* save_to_file() has not renamed yet
    keyFile,       \* link_keys.txt
    profilesFile,  \* profiles.json: << its list of [addr, key] >>, or <<>>
                   \* when it is missing or was only truncated
    uiProfiles,    \* MainFrame::profile_mgr_ (wx)
    uiSaving,      \* the wx manager has truncated profiles.json
    svcProfiles,   \* A2dpService::profile_mgr_ while it is persisting
    session,       \* active_profile_
    headset,       \* the key each headset holds, NoKey after a reset
    nextKey,       \* the next fresh key
    trusted,       \* history: keyFile got the headset's key, still wanted
    outdated,      \* history: devices a session seeded with an old key
    cut            \* history: devices the last write of keyFile did not come
                   \* to, while the database's memory is not loaded again

appVars == <<frontEnd, pc, ready>>
dbVars == <<entries, saving, keyFile>>
profileVars == <<profilesFile, uiProfiles, uiSaving, svcProfiles, session>>
worldVars == <<headset, nextKey>>
historyVars == <<trusted, outdated, cut>>
vars == <<appVars, dbVars, profileVars, worldVars, historyVars>>

NoKey == 0
Keys == 0..MaxKey
Entry == [addr : Devices, key : Keys]
PCs == {"off", "idle", "init", "seed", "connect", "persistConnected",
        "writeConnected", "streaming", "reconnect", "persistFinal",
        "writeFinal"}

-----------------------------------------------------------------------------
(* btstack_link_key_db_file.c.                                             *)

IndicesOf(list, d) == {i \in DOMAIN list : list[i].addr = d}

\* Seeded fault: the search never finds an entry.
FindsNothing(list, d) == 0

\* find_entry(): the first entry of an address, 0 for none.
find_entry(list, d) ==
    IF IndicesOf(list, d) = {} THEN 0
    ELSE CHOOSE i \in IndicesOf(list, d) :
            \A j \in IndicesOf(list, d) : i <= j

\* db_get_link_key().
KeyOf(list, d) ==
    LET i == find_entry(list, d) IN IF i = 0 THEN NoKey ELSE list[i].key

\* Seeded fault: a full database drops its newest entry, not its oldest.
PutEvictingNewest(list, d, k) ==
    LET i == find_entry(list, d)
        kept == IF Len(list) < MAX_LINK_KEYS THEN list ELSE Front(list)
    IN  IF i # 0 THEN [list EXCEPT ![i].key = k]
        ELSE Append(kept, [addr |-> d, key |-> k])

\* db_put_link_key(): overwrite in place, else append, evicting the oldest.
db_put(list, d, k) ==
    LET i == find_entry(list, d)
        kept == IF Len(list) < MAX_LINK_KEYS THEN list ELSE Tail(list)
    IN  IF i # 0 THEN [list EXCEPT ![i].key = k]
        ELSE Append(kept, [addr |-> d, key |-> k])

\* load_from_file(): at most MAX_LINK_KEYS lines.
load_from_file(file) ==
    SubSeq(file, 1, IF Len(file) < MAX_LINK_KEYS THEN Len(file)
                    ELSE MAX_LINK_KEYS)

Has(list, d) == find_entry(list, d) # 0

\* The put of a key in memory; the save is a step of its own.
PutKey(d, k) ==
    /\ entries' = db_put(entries, d, k)
    /\ saving' = TRUE

\* The only device a put may push out: the oldest entry of a full database.
Evictable(d) ==
    IF find_entry(entries, d) = 0 /\ Len(entries) >= MAX_LINK_KEYS
    THEN {entries[1].addr} ELSE {}

\* save_to_file(): the temporary file replaces link_keys.txt in one step.
\* From here on the file is expected to keep the keys that are current.
SaveRenames ==
    /\ saving
    /\ keyFile' = entries
    /\ saving' = FALSE
    /\ trusted' = trusted \cup {d \in Devices :
            headset[d] # NoKey /\ KeyOf(entries, d) = headset[d]}
    /\ cut' = {}
    /\ UNCHANGED <<appVars, entries, profileVars, worldVars, outdated>>

\* fprintf() or fclose() fails, which nothing looks at: what was written, the
\* first entries or none, replaces link_keys.txt.
SaveCutShort ==
    /\ saving
    /\ \E n \in 0 .. Len(entries) - 1 : keyFile' = SubSeq(entries, 1, n)
    /\ saving' = FALSE
    /\ cut' = {d \in Devices : ~Has(keyFile', d)}
    /\ UNCHANGED <<appVars, entries, profileVars, worldVars, trusted, outdated>>

\* The temporary file cannot be opened, or not be renamed: the put has no
\* effect beyond memory.
SaveFails ==
    /\ saving
    /\ saving' = FALSE
    /\ UNCHANGED <<appVars, entries, keyFile, profileVars, worldVars,
                   historyVars>>

\* The memory is given up, and with it what link_keys.txt has lost.
CutIsLost ==
    /\ trusted' = trusted \ cut
    /\ cut' = {}

\* BtStackTransport::get_link_key_hex().
get_link_key_hex(d) == KeyOf(entries, d)

-----------------------------------------------------------------------------
(* profile_manager.cpp.                                                    *)

\* ProfileManager::load(): what does not parse is an empty list.
LoadProfiles(file) == IF file = <<>> THEN <<>> ELSE Head(file)

\* ProfileManager::save() opens the file for writing, which empties it ...
TruncateProfiles == profilesFile' = <<>>

\* ... and then writes the list.
WriteProfiles(list) == profilesFile' = <<list>>

-----------------------------------------------------------------------------
(* The session worker.                                                     *)

\* A session starts: the wx row click passes a profile of the frame's own
\* manager, the WinUI window a profile it fills in, without a link key.
StartSession ==
    /\ pc = "idle"
    /\ \/ /\ frontEnd = "wx"
          /\ \E i \in DOMAIN uiProfiles : session' = uiProfiles[i]
       \/ /\ frontEnd = "winui"
          /\ \E d \in Devices : session' = [addr |-> d, key |-> NoKey]
    /\ pc' = "init"
    /\ UNCHANGED <<frontEnd, ready, dbVars, profilesFile, uiProfiles,
                   uiSaving, svcProfiles, worldVars, historyVars>>

\* ensure_btstack_init(): opening the database loads it once per stack.
InitStack ==
    /\ pc = "init"
    /\ IF ready
       THEN UNCHANGED <<entries, trusted, cut>>
       ELSE entries' = load_from_file(keyFile) /\ CutIsLost
    /\ ready' = TRUE
    /\ pc' = "seed"
    /\ UNCHANGED <<frontEnd, saving, keyFile, profileVars, worldVars, outdated>>

\* Seeded fault: the stored key is never given to the stack.
SkipsSeed ==
    /\ pc = "seed"
    /\ pc' = "connect"
    /\ UNCHANGED <<frontEnd, ready, dbVars, profileVars, worldVars,
                   historyVars>>

\* The worker seeds the profile's key, whatever the database holds.
Seed ==
    LET d == session.addr IN
    /\ pc = "seed"
    /\ pc' = "connect"
    /\ IF session.key = NoKey
       THEN UNCHANGED <<entries, saving, historyVars>>
       ELSE /\ PutKey(d, session.key)
            /\ trusted' = trusted \ Evictable(d)
            /\ outdated' = IF session.key = headset[d] THEN outdated
                           ELSE outdated \cup {d}
            /\ UNCHANGED cut
    /\ UNCHANGED <<frontEnd, ready, keyFile, profileVars, worldVars>>

\* From the connect to the end of the session the headset may have a link.
Linked == {"connect", "persistConnected", "writeConnected", "streaming",
           "reconnect", "persistFinal", "writeFinal"}

AfterConnect ==
    CASE pc = "connect" -> "persistConnected"
      [] pc = "reconnect" -> "streaming"
      [] OTHER -> pc

\* connect_a2dp() or reconnect() with a key both sides know.
ConnectWithKey ==
    /\ pc \in {"connect", "reconnect"} /\ ~saving
    /\ headset[session.addr] # NoKey
    /\ KeyOf(entries, session.addr) = headset[session.addr]
    /\ pc' = AfterConnect
    /\ UNCHANGED <<frontEnd, ready, dbVars, profileVars, worldVars,
                   historyVars>>

\* No common key: the headset, in pairing mode, pairs and the stack puts the
\* new key in the database, on BTstack's thread, whether or not the worker
\* still waits for it.
Pair ==
    LET d == session.addr IN
    /\ pc \in Linked /\ ~saving
    /\ headset[d] = NoKey \/ KeyOf(entries, d) # headset[d]
    /\ nextKey <= MaxKey
    /\ headset' = [headset EXCEPT ![d] = nextKey]
    /\ nextKey' = nextKey + 1
    /\ PutKey(d, nextKey)
    /\ trusted' = trusted \ ({d} \cup Evictable(d))
    /\ outdated' = outdated \ {d}
    /\ pc' = AfterConnect
    /\ UNCHANGED <<frontEnd, ready, keyFile, profileVars, cut>>

\* The headset refuses the key and the stack drops it
\* (db_delete_link_key()); a pairing may follow.
StackDropsKey ==
    LET d == session.addr IN
    /\ pc \in Linked /\ ~saving
    /\ Has(entries, d) /\ KeyOf(entries, d) # headset[d]
    /\ entries' = RemoveAt(entries, find_entry(entries, d))
    /\ saving' = TRUE
    /\ UNCHANGED <<appVars, keyFile, profileVars, worldVars, historyVars>>

\* The link drops and the worker reconnects.
LinkLost ==
    /\ pc = "streaming" /\ ~saving
    /\ pc' = "reconnect"
    /\ UNCHANGED <<frontEnd, ready, dbVars, profileVars, worldVars,
                   historyVars>>

\* The session ends before the final persist: a failed connect or set-up
\* step, or a stop before the stream.
SessionAborts ==
    /\ pc \in {"init", "seed", "connect", "streaming"} /\ ~saving
    /\ pc' = "idle"
    /\ UNCHANGED <<frontEnd, ready, dbVars, profileVars, worldVars,
                   historyVars>>

\* The streaming loop ends, or the reconnect gives up.
SessionEnds ==
    /\ pc \in {"streaming", "reconnect"} /\ ~saving
    /\ pc' = "persistFinal"
    /\ UNCHANGED <<frontEnd, ready, dbVars, profileVars, worldVars,
                   historyVars>>

\* persist_link_key(), first half: read profiles.json afresh and, when the
\* first profile of the device has another key, truncate the file.
PersistLoads ==
    LET d == session.addr
        loaded == LoadProfiles(profilesFile)
        i == find_entry(loaded, d)
        k == get_link_key_hex(d)
        skip == ~Has(entries, d) \/ i = 0 \/ loaded[i].key = k
        final == pc = "persistFinal"
    IN
    /\ pc \in {"persistConnected", "persistFinal"} /\ ~saving
    /\ IF skip
       THEN /\ svcProfiles' = <<>>
            /\ pc' = IF final THEN "idle" ELSE "streaming"
            /\ UNCHANGED profilesFile
       ELSE /\ svcProfiles' = [loaded EXCEPT ![i].key = k]
            /\ TruncateProfiles
            /\ pc' = IF final THEN "writeFinal" ELSE "writeConnected"
    /\ UNCHANGED <<frontEnd, ready, dbVars, uiProfiles, uiSaving, session,
                   worldVars, historyVars>>

\* ProfileManager::update(), second half: the file is written.
PersistWrites ==
    /\ pc \in {"writeConnected", "writeFinal"}
    /\ WriteProfiles(svcProfiles)
    /\ svcProfiles' = <<>>
    /\ pc' = IF pc = "writeFinal" THEN "idle" ELSE "streaming"
    /\ UNCHANGED <<frontEnd, ready, dbVars, uiProfiles, uiSaving, session,
                   worldVars, historyVars>>

\* reset_btstack() between sessions: the next one opens the database again.
ResetStack ==
    /\ pc = "idle" /\ ready /\ ~saving
    /\ ready' = FALSE
    /\ UNCHANGED <<frontEnd, pc, dbVars, profileVars, worldVars,
                   historyVars>>

-----------------------------------------------------------------------------
(* The wx frame edits profiles while a session runs.                       *)

UiMayEdit == frontEnd = "wx" /\ pc # "off" /\ ~uiSaving

UiSave(list) ==
    /\ uiProfiles' = list
    /\ TruncateProfiles
    /\ uiSaving' = TRUE
    /\ UNCHANGED <<appVars, dbVars, svcProfiles, session, worldVars,
                   historyVars>>

\* ProfileDialog::OnSave() builds a profile from its controls: a new one or
\* an edited one carries no link key.
UiAdds ==
    /\ UiMayEdit /\ Len(uiProfiles) < MaxProfiles
    /\ \E d \in Devices :
          UiSave(Append(uiProfiles, [addr |-> d, key |-> NoKey]))

UiEdits ==
    /\ UiMayEdit
    /\ \E i \in DOMAIN uiProfiles, d \in Devices :
          UiSave([uiProfiles EXCEPT ![i] = [addr |-> d, key |-> NoKey]])

UiDeletes ==
    /\ UiMayEdit
    /\ \E i \in DOMAIN uiProfiles : UiSave(RemoveAt(uiProfiles, i))

UiWrites ==
    /\ uiSaving
    /\ WriteProfiles(uiProfiles)
    /\ uiSaving' = FALSE
    /\ UNCHANGED <<appVars, dbVars, uiProfiles, svcProfiles, session,
                   worldVars, historyVars>>

-----------------------------------------------------------------------------
(* The program and its surroundings.                                       *)

\* Either program starts; MainFrame loads the profiles once.
Launch ==
    /\ pc = "off"
    /\ pc' = "idle"
    /\ \E f \in {"wx", "winui"} :
          /\ frontEnd' = f
          /\ uiProfiles' = IF f = "wx" THEN LoadProfiles(profilesFile) ELSE <<>>
    /\ UNCHANGED <<ready, dbVars, profilesFile, uiSaving, svcProfiles,
                   session, worldVars, historyVars>>

\* The program is closed or killed, or crashes, at any step.
Exit ==
    /\ pc # "off"
    /\ pc' = "off"
    /\ ready' = FALSE /\ saving' = FALSE /\ uiSaving' = FALSE
    /\ entries' = <<>> /\ uiProfiles' = <<>> /\ svcProfiles' = <<>>
    /\ CutIsLost
    /\ UNCHANGED <<frontEnd, keyFile, profilesFile, session, worldVars, outdated>>

\* The user resets a headset.
HeadsetForgets(d) ==
    /\ headset[d] # NoKey
    /\ headset' = [headset EXCEPT ![d] = NoKey]
    /\ trusted' = trusted \ {d}
    /\ UNCHANGED <<appVars, dbVars, profileVars, nextKey, outdated, cut>>

\* The user deletes link_keys.txt.
KeyFileDeleted ==
    /\ pc = "off" /\ keyFile # <<>>
    /\ keyFile' = <<>>
    /\ trusted' = {}
    /\ UNCHANGED <<appVars, entries, saving, profileVars, worldVars,
                   outdated, cut>>

Init ==
    /\ frontEnd = "winui" /\ pc = "off" /\ ready = FALSE
    /\ entries = <<>> /\ saving = FALSE /\ keyFile = <<>>
    /\ profilesFile = <<>> /\ uiProfiles = <<>> /\ uiSaving = FALSE
    /\ svcProfiles = <<>>
    /\ session \in [addr : Devices, key : {NoKey}]
    /\ headset = [d \in Devices |-> NoKey] /\ nextKey = 1
    /\ trusted = {} /\ outdated = {} /\ cut = {}

Next ==
    \/ SaveRenames \/ SaveCutShort \/ SaveFails
    \/ StartSession \/ InitStack \/ Seed \/ ConnectWithKey \/ Pair
    \/ StackDropsKey
    \/ LinkLost \/ SessionAborts \/ SessionEnds
    \/ PersistLoads \/ PersistWrites \/ ResetStack
    \/ UiAdds \/ UiEdits \/ UiDeletes \/ UiWrites
    \/ Launch \/ Exit \/ KeyFileDeleted
    \/ \E d \in Devices : HeadsetForgets(d)

Spec == Init /\ [][Next]_vars

-----------------------------------------------------------------------------
TypeOK ==
    /\ frontEnd \in {"wx", "winui"} /\ pc \in PCs
    /\ ready \in BOOLEAN /\ saving \in BOOLEAN /\ uiSaving \in BOOLEAN
    /\ entries \in Seq(Entry) /\ keyFile \in Seq(Entry)
    /\ LoadProfiles(profilesFile) \in Seq(Entry)
    /\ uiProfiles \in Seq(Entry) /\ svcProfiles \in Seq(Entry)
    /\ session \in Entry
    /\ headset \in [Devices -> Keys] /\ nextKey \in 1..(MaxKey + 1)
    /\ trusted \subseteq Devices /\ outdated \subseteq Devices
    /\ cut \subseteq Devices

OneEntryEach(list) ==
    /\ Len(list) <= MAX_LINK_KEYS
    /\ \A i, j \in DOMAIN list : list[i].addr = list[j].addr => i = j

\* The database and its file hold at most one key per headset and never more
\* than MAX_LINK_KEYS, across reloads, overwrites and evictions
\* (db_put_link_key(), load_from_file()).
OneKeyPerHeadset == TypeOK /\ OneEntryEach(entries) /\ OneEntryEach(keyFile)

\* Once link_keys.txt has a headset's current key it keeps it, across
\* crashes between any two steps, saves that cannot begin, later pairings and
\* profile edits, until the headset is reset or re-paired, the entry is the
\* oldest of a full database, or a wx session seeds a key its own profile copy
\* still had from before.  A write that fails half-way takes keys out of the
\* file, but not out of the database: the next save brings them back, and only
\* where the process or the stack ends before it are they lost
\* (save_to_file(), persist_link_key()).
KeyKept ==
    \A d \in trusted \ outdated :
        KeyOf(IF d \in cut THEN entries ELSE keyFile, d) = headset[d]

\* A headset pairs anew only when it must: it forgot its key, or neither the
\* session's profile nor link_keys.txt has the key it holds (the seeding in
\* streaming_thread_func_inner(), docs/dev/PLAN_SYSTEM.md 4.6).
PairsOnlyWhenNeeded ==
    [][\A d \in Devices : headset'[d] \notin {headset[d], NoKey} =>
          \/ headset[d] = NoKey
          \/ /\ session.key # headset[d]
             /\ d \notin trusted \ outdated]_vars

\* "re-pairing never loses the stored key" (a2dp_service.h:180): as KeyKept,
\* without the exception for seeded copies.
RepairNeverLosesKey == \A d \in trusted \ cut : KeyOf(keyFile, d) = headset[d]

\* "(atomic via temp + rename)" (save_to_file()): as KeyKept, without the
\* exception for writes that fail.
SavesAreAtomic == \A d \in trusted \ outdated : KeyOf(keyFile, d) = headset[d]
=============================================================================
