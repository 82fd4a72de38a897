---------------------------- MODULE Administration ----------------------------
(***************************************************************************)
(* The administrator's requests: the settings form, the two tuning knobs   *)
(* of the host, power, and the docker prunes.  Handlers run side by side   *)
(* and no lock orders them: each SQL statement, and each command of a      *)
(* shell script the agent runs on the host, is one action.  The password   *)
(* itself is in Access; here it is right or it is not.                     *)
(***************************************************************************)
EXTENDS Integers, FiniteSets

CONSTANTS
  Settings,  \* the keys of settingsDefaults
  Unknown,   \* a key that is not one of them
  Values,    \* what a form may say
  Preset,    \* what a setting without a row reads as
  Levels,    \* swappiness
  Factory,   \* that of the kernel
  Absent,    \* no file in /etc/sysctl.d
  Workers,   \* request goroutines
  Events     \* bound: requests and power cuts

ASSUME AdministrationAssumption ==
  /\ Unknown \notin Settings /\ Preset \notin Values
  /\ Factory \in Levels /\ Absent \notin Levels
  /\ Events \in Nat

VARIABLES
  settings,      \* admin_settings
  said,          \* history: the value of the newest form answered "ok"
  live, kept,    \* swappiness: of the kernel, and in 90-truffels.conf
  journal,       \* journald writes to the disk
  dropin, vault, \* truffels.conf and /var/log/journal exist
  images,        \* of each image: a container of it is "stopped", it is "unused",
                 \* or it is "gone"
  cache,         \* the build cache holds something
  pc, job,       \* what each goroutine does next, and its local variables
  crossed,       \* history: two requests for the same settings or the same knob
                 \* were in flight together
  torn,          \* history: the settings that a form given up half way wrote,
                 \* and no form answered since
  parted,        \* history: the knobs whose script ended half way, and none
                 \* went through since
  left           \* what remains of Events

vars == <<settings, said, live, kept, journal, dropin, vault, images, cache, pc, job, crossed, torn, parted, left>>

Acts == {"form", "swappiness", "persist", "forget", "power", "prune", "buildcache"}
Places == {"old", "new"}  \* two images: no prune touches one that runs
NoJob == [act |-> "none", form |-> <<>>, todo |-> {}, level |-> Absent]

OnBoot == IF kept = Absent THEN Factory ELSE kept
OnDisk == dropin \/ vault  \* Storage=persistent, or auto with the directory

Init ==
  /\ settings = [k \in Settings |-> Preset] /\ said = settings
  /\ live = Factory /\ kept = Absent
  /\ vault \in BOOLEAN /\ dropin = FALSE /\ journal = OnDisk
  /\ images = [i \in Places |-> IF i = "old" THEN "unused" ELSE "stopped"]
  /\ cache = TRUE
  /\ pc = [w \in Workers |-> "idle"]
  /\ job = [w \in Workers |-> NoJob]
  /\ crossed = FALSE /\ torn = {} /\ parted = {}
  /\ left = Events

At(w, p) == pc[w] = p
Goto(w, p) == pc' = [pc EXCEPT ![w] = p] /\ UNCHANGED job
Finish(w) == pc' = [pc EXCEPT ![w] = "idle"] /\ job' = [job EXCEPT ![w] = NoJob]
Quiet == UNCHANGED <<crossed, parted>>
KeepForm == UNCHANGED <<settings, said, torn>>
KeepHost == UNCHANGED <<live, kept, journal, dropin, vault>>
KeepDocker == UNCHANGED <<images, cache>>

First == [a \in Acts |->
  CASE a = "form" -> "write" [] a = "swappiness" -> "live"
    [] a = "persist" -> "mkdir" [] a = "forget" -> "rmdir" [] OTHER -> "password"]

Journalling == {"persist", "forget"}
Clash(a, keys, b, others) ==
  \/ a = "form" /\ b = "form" /\ keys \cap others # {}
  \/ a = "swappiness" /\ b = "swappiness"
  \/ a \in Journalling /\ b \in Journalling

Request(w, a, form, level) ==
  /\ At(w, "idle") /\ left > 0 /\ left' = left - 1
  /\ pc' = [pc EXCEPT ![w] = First[a]]
  /\ job' = [job EXCEPT ![w] =
       [act |-> a, form |-> form, todo |-> DOMAIN form, level |-> level]]
  /\ crossed' = (crossed \/ \E v \in Workers \ {w} :
       Clash(a, DOMAIN form, job[v].act, DOMAIN job[v].form))
  /\ UNCHANGED parted /\ KeepForm /\ KeepHost /\ KeepDocker

-----------------------------------------------------------------------------
(* handleUpdateSettings.  The keys come in the order of a Go map.          *)

Written(w) == DOMAIN job[w].form \ job[w].todo
Tear(w) == torn' = torn \cup Written(w)

\* Slip: the error of the statement is ignored.
WriteAnyway(w) ==
  /\ At(w, "write")
  /\ \E k \in job[w].todo :
       \/ /\ k \in Settings
          /\ \/ settings' = [settings EXCEPT ![k] = job[w].form[k]]
             \/ UNCHANGED settings
          /\ job' = [job EXCEPT ![w].todo = @ \ {k}]
          /\ UNCHANGED <<pc, torn>>
       \/ k = Unknown /\ Finish(w) /\ Tear(w) /\ UNCHANGED settings
  /\ UNCHANGED said /\ KeepHost /\ KeepDocker /\ Quiet

\* The first key that is unknown or cannot be written ends the request.
Write(w) ==
  /\ At(w, "write")
  /\ \E k \in job[w].todo :
       \/ /\ k \in Settings
          /\ settings' = [settings EXCEPT ![k] = job[w].form[k]]
          /\ job' = [job EXCEPT ![w].todo = @ \ {k}]
          /\ UNCHANGED <<pc, torn>>
       \/ Finish(w) /\ Tear(w) /\ UNCHANGED settings
  /\ UNCHANGED said /\ KeepHost /\ KeepDocker /\ Quiet

AnswerForm(w) ==
  /\ At(w, "write") /\ job[w].todo = {}
  /\ said' = [k \in Settings |->
                IF k \in DOMAIN job[w].form THEN job[w].form[k] ELSE said[k]]
  /\ torn' = torn \ DOMAIN job[w].form
  /\ Finish(w)
  /\ UNCHANGED settings /\ KeepHost /\ KeepDocker /\ Quiet

-----------------------------------------------------------------------------
(* handleSystemTuningSet: commands joined by "&&", killed after 15 s.      *)

Knob(w) == IF job[w].act = "swappiness" THEN "swappiness" ELSE "journal"
Passed(knob) == parted' = parted \ {knob} /\ UNCHANGED crossed

Fail(w) ==
  /\ pc[w] \in {"live", "keep", "mkdir", "dropin", "rmdir", "undrop", "journald"}
  /\ Finish(w)
  /\ parted' = parted \cup {Knob(w)} /\ UNCHANGED crossed
  /\ KeepForm /\ KeepHost /\ KeepDocker

SetLive(w) ==
  /\ At(w, "live") /\ live' = job[w].level
  /\ Goto(w, "keep")
  /\ KeepForm /\ UNCHANGED <<kept, journal, dropin, vault>> /\ KeepDocker /\ Quiet

\* Slip: the file of a value that was kept before is not rewritten.
KeepFirst(w) ==
  /\ At(w, "keep") /\ kept' = IF kept = Absent THEN job[w].level ELSE kept
  /\ Finish(w) /\ Passed("swappiness")
  /\ KeepForm /\ UNCHANGED <<live, journal, dropin, vault>> /\ KeepDocker

SetKept(w) ==
  /\ At(w, "keep") /\ kept' = job[w].level
  /\ Finish(w) /\ Passed("swappiness")
  /\ KeepForm /\ UNCHANGED <<live, journal, dropin, vault>> /\ KeepDocker

\* mkdir and the drop-in, or their removal; then journald is restarted.
Vault(w) ==
  /\ \/ At(w, "mkdir") /\ vault' = TRUE /\ Goto(w, "dropin")
     \/ At(w, "rmdir") /\ vault' = FALSE /\ Goto(w, "undrop")
  /\ KeepForm /\ UNCHANGED <<live, kept, journal, dropin>> /\ KeepDocker /\ Quiet

DropIn(w) ==
  /\ \/ At(w, "dropin") /\ dropin' = TRUE
     \/ At(w, "undrop") /\ dropin' = FALSE
  /\ Goto(w, "journald")
  /\ KeepForm /\ UNCHANGED <<live, kept, journal, vault>> /\ KeepDocker /\ Quiet

\* With Storage=persistent it makes the directory itself.
Journald(w) ==
  /\ At(w, "journald") /\ journal' = OnDisk /\ vault' = OnDisk
  /\ Finish(w) /\ Passed("journal")
  /\ KeepForm /\ UNCHANGED <<live, kept, dropin>> /\ KeepDocker

-----------------------------------------------------------------------------
(* Shutdown, restart, and the prunes: the password first.                  *)

CheckPassword(w) ==
  /\ At(w, "password")
  /\ \/ Goto(w, IF job[w].act = "power" THEN "power" ELSE "builder")
     \/ Finish(w)
  /\ KeepForm /\ KeepHost /\ KeepDocker /\ Quiet

Scripted(w) == pc[w] \in {"keep", "dropin", "undrop", "journald"}

\* The host goes down, with every request in flight, and comes up again.
Boot ==
  /\ live' = OnBoot
  /\ journal' = OnDisk /\ vault' = OnDisk
  /\ pc' = [w \in Workers |-> "idle"]
  /\ job' = [w \in Workers |-> NoJob]
  /\ torn' = torn \cup UNION {Written(w) : w \in Workers}
  /\ parted' = {}
  /\ UNCHANGED <<settings, said, crossed, kept, dropin>> /\ KeepDocker

Power(w) ==
  /\ At(w, "power")
  /\ \/ Boot
     \/ Finish(w) /\ KeepForm /\ KeepHost /\ KeepDocker /\ Quiet

PowerCut == left > 0 /\ left' = left - 1 /\ Boot

\* A prune goes on when a part of it fails; "buildcache" has this part only.
PruneCache(w) ==
  /\ At(w, "builder")
  /\ cache' \in {cache, FALSE}
  /\ IF job[w].act = "prune" THEN Goto(w, "images") ELSE Finish(w)
  /\ KeepForm /\ KeepHost /\ UNCHANGED images /\ Quiet

PruneImages(w) ==
  /\ At(w, "images")
  /\ \E p \in SUBSET {i \in Places : images[i] = "unused"} :
       images' = [i \in Places |-> IF i \in p THEN "gone" ELSE images[i]]
  /\ Goto(w, "system")
  /\ KeepForm /\ KeepHost /\ UNCHANGED cache /\ Quiet

\* It removes the containers that are stopped, but not their tagged images.
PruneSystem(w) ==
  /\ At(w, "system")
  /\ \E p \in SUBSET {i \in Places : images[i] = "stopped"} :
       images' = [i \in Places |-> IF i \in p THEN "unused" ELSE images[i]]
  /\ Finish(w)
  /\ KeepForm /\ KeepHost /\ UNCHANGED cache /\ Quiet

-----------------------------------------------------------------------------
Step(w) ==
  /\ \/ Write(w) \/ AnswerForm(w)
     \/ SetLive(w) \/ SetKept(w) \/ Vault(w) \/ DropIn(w) \/ Journald(w) \/ Fail(w)
     \/ CheckPassword(w) \/ Power(w)
     \/ PruneCache(w) \/ PruneImages(w) \/ PruneSystem(w)
  /\ UNCHANGED left

Forms == UNION {[keys -> Values] : keys \in SUBSET (Settings \cup {Unknown})}

Next ==
  \/ \E w \in Workers :
       \/ \E form \in Forms : Request(w, "form", form, Absent)
       \/ \E level \in Levels : Request(w, "swappiness", <<>>, level)
       \/ \E a \in Acts \ {"form", "swappiness"} : Request(w, a, <<>>, Absent)
       \/ Step(w)
  \/ PowerCut

Spec == Init /\ [][Next]_vars

-----------------------------------------------------------------------------
TypeOK ==
  /\ {settings, said} \subseteq [Settings -> Values \cup {Preset}]
  /\ live \in Levels /\ kept \in Levels \cup {Absent}
  /\ {journal, dropin, vault, cache} \subseteq BOOLEAN
  /\ images \in [Places -> {"stopped", "unused", "gone"}]
  /\ crossed \in BOOLEAN /\ torn \subseteq Settings \cup {Unknown}
  /\ parted \subseteq {"swappiness", "journal"} /\ left \in Nat

\* The settings are those of the newest forms that were answered "ok", and of
\* the one being written, except the keys a form had written when it was given
\* up, until another form for them is answered; however forms for other keys,
\* refusals, failing writes and power cuts interleave (settings.go:71-104).
SettingsHold ==
  ~crossed =>
    \A k \in Settings \ torn :
      \/ settings[k] = said[k]
      \/ \E w \in Workers : k \in Written(w) /\ settings[k] = job[w].form[k]

AdministrationInv == TypeOK /\ SettingsHold

\* What the kernel and journald do is what they will do after the next boot,
\* once no script is half way, unless the last script for the knob failed; a
\* script that goes through and a boot mend what another left half way
\* (main.go:1157-1195).
TuningSurvives ==
  (\A w \in Workers : ~Scripted(w)) =>
    /\ ~crossed /\ "swappiness" \notin parted => live = OnBoot
    /\ "journal" \notin parted => journal = OnDisk
=============================================================================
