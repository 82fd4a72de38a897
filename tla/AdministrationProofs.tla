------------------------- MODULE AdministrationProofs -------------------------
(***************************************************************************)
(* Proofs about the administrator's requests, for any number of them, any  *)
(* settings and any levels.  While no two requests for the same thing were *)
(* in flight together, each has its settings, and its knob, to itself.     *)
(***************************************************************************)
EXTENDS Administration, TLAPS

Keys == Settings \cup {Unknown}

Labels == {"idle", "write", "live", "keep", "mkdir", "rmdir", "dropin", "undrop",
           "journald", "password", "power", "builder", "images", "system"}

\* The commands that change, or make journald read, the journal's files.
Files == {"mkdir", "rmdir", "dropin", "undrop", "journald"}

Jobs == [act : Acts \cup {"none"}, form : Forms \cup {<<>>},
         todo : SUBSET Keys, level : Levels \cup {Absent}]

\* What a goroutine does tells what its request is.
JobOK(w) ==
  /\ pc[w] = "idle" => job[w] = NoJob
  /\ job[w].act = "form" <=> pc[w] = "write"
  /\ job[w].act # "form" => DOMAIN job[w].form = {}
  /\ job[w].todo \subseteq DOMAIN job[w].form
  /\ pc[w] \in {"live", "keep"} => job[w].act = "swappiness" /\ job[w].level \in Levels
  /\ pc[w] \in Files => job[w].act # "swappiness"

RequestsOK ==
  /\ pc \in [Workers -> Labels] /\ job \in [Workers -> Jobs]
  /\ \A w \in Workers : JobOK(w)

FormsOK == {settings, said} \subseteq [Settings -> Values \cup {Preset}]
HostOK ==
  /\ live \in Levels /\ kept \in Levels \cup {Absent}
  /\ {journal, dropin, vault} \subseteq BOOLEAN
DockerOK == cache \in BOOLEAN /\ images \in [Places -> {"stopped", "unused", "gone"}]
RestOK ==
  /\ crossed \in BOOLEAN /\ torn \subseteq Settings \cup {Unknown}
  /\ parted \subseteq {"swappiness", "journal"} /\ left \in Nat

LEMMA TypesAre == TypeOK <=> FormsOK /\ HostOK /\ DockerOK /\ RestOK
  BY DEF TypeOK, FormsOK, HostOK, DockerOK, RestOK

\* No two requests in flight want the same.
ClashOf(v, w) ==
  Clash(job[v].act, DOMAIN job[v].form, job[w].act, DOMAIN job[w].form)
Alone == \A v, w \in Workers : v # w => ~ClashOf(v, w)

\* What a form in flight has written is there, and what none has written, nor
\* one that was given up, is what was last answered.
WrittenHolds ==
  \A w \in Workers : \A k \in Written(w) \cap Settings : settings[k] = job[w].form[k]
SaidHolds ==
  \A k \in Settings \ torn :
    (\A w \in Workers : k \notin Written(w)) => settings[k] = said[k]

FormsHold == ~crossed => Alone /\ WrittenHolds /\ SaidHolds

\* Swappiness: whoever is about to write the file has set the kernel to it, so
\* the script that goes through mends what another left half way.
KnobHolds ==
  ~crossed =>
    /\ \A w \in Workers : pc[w] = "keep" => live = job[w].level
    /\ "swappiness" \notin parted /\ (\A w \in Workers : pc[w] # "keep") => live = OnBoot

JournalHolds ==
  /\ "journal" \notin parted
  /\ \A w \in Workers : pc[w] \notin {"dropin", "undrop", "journald"}
  => journal = OnDisk

-----------------------------------------------------------------------------
(* Requests.                                                               *)

LEMMA FormIs ==
  ASSUME NEW form \in Forms \cup {<<>>}
  PROVE  DOMAIN form \subseteq Keys /\ \A k \in DOMAIN form : form[k] \in Values
<1>1. CASE form \in Forms
  <2>1. PICK keys \in SUBSET (Settings \cup {Unknown}) : form \in [keys -> Values]
    BY <1>1 DEF Forms
  <2> QED BY <2>1 DEF Keys
<1>2. CASE form = <<>>
  BY <1>2
<1> QED BY <1>1, <1>2

LEMMA NoJobIs ==
  /\ NoJob \in Jobs /\ NoJob.act = "none" /\ DOMAIN NoJob.form = {}
  /\ NoJob.todo = {} /\ NoJob.level = Absent
<1>1. DOMAIN <<>> = {}
  OBVIOUS
<1> QED BY <1>1 DEF NoJob, Jobs

\* What becomes of the goroutines when w moves on, ends, or all end.
LEMMA GotoIs ==
  ASSUME RequestsOK, NEW w \in Workers, NEW p \in Labels, Goto(w, p),
         pc[w] # "write", p \notin {"idle", "write"},
         p \in {"live", "keep"} => pc[w] \in {"live", "keep"},
         p \in Files => pc[w] \in Files
  PROVE  /\ RequestsOK' /\ pc'[w] = p /\ job' = job
         /\ \A v \in Workers \ {w} : pc'[v] = pc[v]
<1>1. /\ pc' = [pc EXCEPT ![w] = p] /\ job' = job
  BY DEF Goto
<1>2. pc' \in [Workers -> Labels] /\ job' \in [Workers -> Jobs] /\ pc'[w] = p
  BY <1>1 DEF RequestsOK
<1>3. \A v \in Workers \ {w} : pc'[v] = pc[v]
  BY <1>1 DEF RequestsOK
<1>4. ASSUME NEW v \in Workers PROVE JobOK(v)'
  <2>1. CASE v = w
    BY <1>1, <1>2, <2>1 DEF RequestsOK, JobOK
  <2>2. CASE v # w
    BY <1>1, <1>3, <2>2 DEF RequestsOK, JobOK
  <2> QED BY <2>1, <2>2
<1> QED BY <1>1, <1>2, <1>3, <1>4 DEF RequestsOK

LEMMA FinishIs ==
  ASSUME RequestsOK, NEW w \in Workers, Finish(w)
  PROVE  /\ RequestsOK' /\ pc'[w] = "idle" /\ job'[w] = NoJob
         /\ \A v \in Workers \ {w} : pc'[v] = pc[v] /\ job'[v] = job[v]
<1>1. pc' = [pc EXCEPT ![w] = "idle"] /\ job' = [job EXCEPT ![w] = NoJob]
  BY DEF Finish
<1>2. /\ pc' \in [Workers -> Labels] /\ job' \in [Workers -> Jobs]
      /\ pc'[w] = "idle" /\ job'[w] = NoJob
  BY <1>1, NoJobIs DEF RequestsOK, Labels
<1>3. \A v \in Workers \ {w} : pc'[v] = pc[v] /\ job'[v] = job[v]
  BY <1>1 DEF RequestsOK
<1>4. ASSUME NEW v \in Workers PROVE JobOK(v)'
  <2>1. CASE v = w
    BY <1>2, <2>1, NoJobIs DEF JobOK
  <2>2. CASE v # w
    BY <1>3, <2>2 DEF RequestsOK, JobOK
  <2> QED BY <2>1, <2>2
<1> QED BY <1>2, <1>3, <1>4 DEF RequestsOK

LEMMA AllIdleIs ==
  ASSUME pc' = [w \in Workers |-> "idle"], job' = [w \in Workers |-> NoJob]
  PROVE  RequestsOK' /\ \A w \in Workers : pc'[w] = "idle" /\ job'[w] = NoJob
  BY NoJobIs DEF RequestsOK, JobOK, Labels

\* A request as Next makes it.
Made(a, form, level) ==
  \/ a = "form" /\ form \in Forms /\ level = Absent
  \/ a = "swappiness" /\ form = <<>> /\ level \in Levels
  \/ a \in Acts \ {"form", "swappiness"} /\ form = <<>> /\ level = Absent

LEMMA FirstIs ==
  ASSUME NEW a \in Acts
  PROVE  /\ First[a] \in {"write", "live", "mkdir", "rmdir", "password"}
         /\ First[a] = "write" <=> a = "form"
         /\ First[a] = "live" <=> a = "swappiness"
  BY DEF First, Acts

LEMMA RequestIs ==
  ASSUME RequestsOK, NEW w \in Workers, NEW a, NEW form, NEW level,
         Made(a, form, level), Request(w, a, form, level)
  PROVE  /\ RequestsOK' /\ pc[w] = "idle"
         /\ pc'[w] \in {"write", "live", "mkdir", "rmdir", "password"}
         /\ job'[w].act = a /\ job'[w].form = form /\ job'[w].todo = DOMAIN form
         /\ \A v \in Workers \ {w} : pc'[v] = pc[v] /\ job'[v] = job[v]
<1> DEFINE new == [act |-> a, form |-> form, todo |-> DOMAIN form, level |-> level]
<1>1. /\ pc' = [pc EXCEPT ![w] = First[a]] /\ job' = [job EXCEPT ![w] = new]
      /\ pc[w] = "idle"
  BY DEF Request, At
<1>2. /\ a \in Acts /\ form \in Forms \cup {<<>>} /\ level \in Levels \cup {Absent}
      /\ a # "form" => form = <<>>
      /\ a = "swappiness" => level \in Levels
  BY DEF Made, Acts
<1>3. /\ First[a] \in {"write", "live", "mkdir", "rmdir", "password"}
      /\ First[a] = "write" <=> a = "form"
      /\ First[a] = "live" <=> a = "swappiness"
  BY <1>2, FirstIs
<1>4. DOMAIN form \subseteq Keys /\ (a # "form" => DOMAIN form = {})
  BY <1>2, FormIs
<1>5. /\ new \in Jobs /\ new.act = a /\ new.form = form /\ new.todo = DOMAIN form
      /\ new.level = level
  BY <1>2, <1>4 DEF Jobs
<1> HIDE DEF new
<1>6. /\ pc' \in [Workers -> Labels] /\ job' \in [Workers -> Jobs]
      /\ pc'[w] = First[a] /\ job'[w] = new
  BY <1>1, <1>3, <1>5 DEF RequestsOK, Labels
<1>7. \A v \in Workers \ {w} : pc'[v] = pc[v] /\ job'[v] = job[v]
  BY <1>1 DEF RequestsOK
<1>8. ASSUME NEW v \in Workers PROVE JobOK(v)'
  <2>1. CASE v = w
    BY <1>2, <1>3, <1>4, <1>5, <1>6, <2>1 DEF JobOK, Files
  <2>2. CASE v # w
    BY <1>7, <2>2 DEF RequestsOK, JobOK
  <2> QED BY <2>1, <2>2
<1> QED BY <1>1, <1>3, <1>5, <1>6, <1>7, <1>8 DEF RequestsOK

-----------------------------------------------------------------------------
(* What keeps the three parts of the invariant.                            *)

\* Forms: some goroutines end, the others stay as they are.
LEMMA FormsEnd ==
  ASSUME RequestsOK, FormsHold, UNCHANGED <<settings, said>>, NEW S \in SUBSET Workers,
         \A v \in S : job'[v] = NoJob,
         \A v \in Workers \ S : job'[v] = job[v],
         crossed => crossed', torn \subseteq torn',
         \A v \in S : Written(v) \subseteq torn'
  PROVE  FormsHold'
<1> SUFFICES ASSUME ~crossed'
             PROVE  Alone' /\ WrittenHolds' /\ SaidHolds'
  BY DEF FormsHold
<1>1. ~crossed
  OBVIOUS
<1>2. Alone /\ WrittenHolds /\ SaidHolds
  BY <1>1 DEF FormsHold
<1>3. \A v \in S : Written(v)' = {}
  BY NoJobIs DEF Written
<1>4. \A v \in Workers \ S : Written(v)' = Written(v)
  BY DEF Written
<1>5. Alone'
  BY <1>2, NoJobIs DEF Alone, ClashOf, Clash, Journalling
<1>6. WrittenHolds'
  BY <1>2, <1>3, <1>4 DEF WrittenHolds
<1>7. SaidHolds'
  <2> SUFFICES ASSUME NEW k \in Settings \ torn', \A v \in Workers : k \notin Written(v)'
               PROVE  settings'[k] = said'[k]
    BY DEF SaidHolds
  <2>1. k \notin torn /\ \A v \in Workers : k \notin Written(v)
    BY <1>4
  <2> QED BY <1>2, <2>1 DEF SaidHolds
<1> QED BY <1>5, <1>6, <1>7

LEMMA FormsKeep ==
  ASSUME RequestsOK, FormsHold, KeepForm, job' = job, crossed => crossed'
  PROVE  FormsHold'
<1> DEFINE S == {}
<1>1. /\ S \in SUBSET Workers /\ \A v \in S : job'[v] = NoJob
      /\ \A v \in Workers \ S : job'[v] = job[v]
      /\ \A v \in S : Written(v) \subseteq torn'
  OBVIOUS
<1>2. UNCHANGED <<settings, said>> /\ torn \subseteq torn'
  BY DEF KeepForm
<1> HIDE DEF S
<1> QED BY <1>1, <1>2, FormsEnd

LEMMA OthersWriteNothing ==
  ASSUME RequestsOK, NEW w \in Workers, pc[w] # "write"
  PROVE  Written(w) = {}
  BY DEF RequestsOK, JobOK, Written

\* A goroutine ends.
LEMMA FormsFinish ==
  ASSUME RequestsOK, FormsHold, NEW w \in Workers, Finish(w), crossed => crossed',
         \/ KeepForm /\ pc[w] # "write"
         \/ UNCHANGED <<settings, said>> /\ Tear(w)
  PROVE  FormsHold'
<1> DEFINE S == {w}
<1>1. S \in SUBSET Workers
  OBVIOUS
<1>2. \A v \in S : job'[v] = NoJob
  BY FinishIs
<1>3. \A v \in Workers \ S : job'[v] = job[v]
  BY FinishIs
<1>4. /\ UNCHANGED <<settings, said>> /\ torn \subseteq torn'
      /\ \A v \in S : Written(v) \subseteq torn'
  BY OthersWriteNothing DEF KeepForm, Tear
<1> HIDE DEF S
<1> QED BY <1>1, <1>2, <1>3, <1>4, FormsEnd

\* The knob and the journal: no script gets to, or leaves, the steps between
\* the two commands.
LEMMA KnobKeeps ==
  ASSUME KnobHolds, UNCHANGED <<live, kept>>,
         crossed => crossed', parted \subseteq parted',
         \A v \in Workers : pc'[v] = "keep" <=> pc[v] = "keep",
         \A v \in Workers : pc[v] = "keep" => job'[v] = job[v]
  PROVE  KnobHolds'
<1>1. OnBoot' = OnBoot
  BY DEF OnBoot
<1>2. "swappiness" \notin parted' => "swappiness" \notin parted
  OBVIOUS
<1> QED BY <1>1, <1>2 DEF KnobHolds

LEMMA JournalKeeps ==
  ASSUME JournalHolds, UNCHANGED <<journal, dropin, vault>>,
         "journal" \in parted => "journal" \in parted',
         \A v \in Workers : pc[v] \in {"dropin", "undrop", "journald"}
                              => pc'[v] \in {"dropin", "undrop", "journald"}
  PROVE  JournalHolds'
<1>1. OnDisk' = OnDisk
  BY DEF OnDisk
<1> QED BY <1>1 DEF JournalHolds

RunsHold == RequestsOK /\ FormsHold /\ KnobHolds /\ JournalHolds

\* A step of w that moves neither settings nor knobs.
LEMMA StillHold ==
  ASSUME RunsHold, KeepForm, KeepHost, Quiet, NEW w \in Workers,
         pc[w] \notin {"write", "keep", "dropin", "undrop", "journald"},
         \/ Finish(w)
         \/ \E p \in Labels \ ({"idle", "write", "live", "keep"} \cup Files) : Goto(w, p)
  PROVE  RunsHold'
<1> USE DEF RunsHold
<1>1. CASE Finish(w)
  <2>1. /\ RequestsOK' /\ pc'[w] = "idle" /\ job'[w] = NoJob
        /\ \A v \in Workers \ {w} : pc'[v] = pc[v] /\ job'[v] = job[v]
    BY <1>1, FinishIs
  <2>2. FormsHold'
    BY <1>1, FormsFinish DEF Quiet
  <2>3. KnobHolds'
    BY <2>1, KnobKeeps DEF KeepHost, Quiet
  <2>4. JournalHolds'
    BY <2>1, JournalKeeps DEF KeepHost, Quiet
  <2> QED BY <2>1, <2>2, <2>3, <2>4
<1>2. ASSUME NEW p \in Labels \ ({"idle", "write", "live", "keep"} \cup Files), Goto(w, p)
      PROVE  RunsHold'
  <2>1. /\ RequestsOK' /\ pc'[w] = p /\ job' = job
        /\ \A v \in Workers \ {w} : pc'[v] = pc[v]
    BY <1>2, GotoIs
  <2>2. FormsHold'
    BY <2>1, FormsKeep DEF Quiet
  <2>3. KnobHolds'
    BY <1>2, <2>1, KnobKeeps DEF KeepHost, Quiet
  <2>4. JournalHolds'
    BY <2>1, JournalKeeps DEF KeepHost, Quiet
  <2> QED BY <2>1, <2>2, <2>3, <2>4
<1> QED BY <1>1, <1>2

-----------------------------------------------------------------------------
(* One lemma per action.                                                   *)

LEMMA RequestHolds ==
  ASSUME RunsHold, NEW w \in Workers, NEW a, NEW form, NEW level,
         Made(a, form, level), Request(w, a, form, level)
  PROVE  RunsHold'
<1> USE DEF RunsHold
<1>1. /\ RequestsOK' /\ pc[w] = "idle"
      /\ pc'[w] \in {"write", "live", "mkdir", "rmdir", "password"}
      /\ job'[w].act = a /\ job'[w].form = form /\ job'[w].todo = DOMAIN form
      /\ \A v \in Workers \ {w} : pc'[v] = pc[v] /\ job'[v] = job[v]
  BY RequestIs
<1>2. KeepForm /\ KeepHost /\ (crossed => crossed') /\ UNCHANGED parted
  BY DEF Request
<1>3. (\E v \in Workers \ {w} : Clash(a, DOMAIN form, job[v].act, DOMAIN job[v].form))
        => crossed'
  BY DEF Request
<1>4. job[w] = NoJob
  BY <1>1 DEF RequestsOK, JobOK
<1>5. Written(w) = {} /\ Written(w)' = {}
  BY <1>1, <1>4, NoJobIs DEF Written
<1>6. \A v \in Workers : Written(v)' = Written(v)
  BY <1>1, <1>5 DEF Written
<1>7. FormsHold'
  <2> SUFFICES ASSUME ~crossed'
               PROVE  Alone' /\ WrittenHolds' /\ SaidHolds'
    BY DEF FormsHold
  <2>1. Alone /\ WrittenHolds /\ SaidHolds
    BY <1>2 DEF FormsHold
  <2>2. ASSUME NEW u \in Workers, NEW v \in Workers, u # v PROVE ~ClashOf(u, v)'
    <3>1. CASE u # w /\ v # w
      BY <1>1, <2>1, <2>2, <3>1 DEF Alone, ClashOf
    <3>2. CASE u = w
      BY <1>1, <1>3, <2>2, <3>2 DEF ClashOf
    <3>3. CASE v = w
      BY <1>1, <1>3, <2>2, <3>3 DEF ClashOf, Clash
    <3> QED BY <3>1, <3>2, <3>3
  <2>3. WrittenHolds'
    <3> SUFFICES ASSUME NEW v \in Workers, NEW k \in Written(v)' \cap Settings
                 PROVE  settings'[k] = job'[v].form[k]
      BY DEF WrittenHolds
    <3>1. v # w
      BY <1>5
    <3> QED BY <1>1, <1>2, <1>6, <2>1, <3>1 DEF WrittenHolds, KeepForm
  <2>4. SaidHolds'
    BY <1>2, <1>6, <2>1 DEF SaidHolds, KeepForm
  <2> QED BY <2>2, <2>3, <2>4 DEF Alone
<1>8. KnobHolds'
  BY <1>1, <1>2, KnobKeeps DEF KeepHost
<1>9. JournalHolds'
  BY <1>1, <1>2, JournalKeeps DEF KeepHost
<1> QED BY <1>1, <1>7, <1>8, <1>9

\* A key is written: no other form in flight has it.
LEMMA WriteHolds ==
  ASSUME RunsHold, FormsOK, NEW w \in Workers, Write(w)
  PROVE  RunsHold'
<1> USE DEF RunsHold
<1>0. /\ pc[w] = "write" /\ UNCHANGED said /\ KeepHost
      /\ pc \in [Workers -> Labels] /\ job \in [Workers -> Jobs] /\ JobOK(w)
  BY DEF Write, At, RequestsOK
<1>1. ASSUME NEW k \in job[w].todo, k \in Settings,
             settings' = [settings EXCEPT ![k] = job[w].form[k]],
             job' = [job EXCEPT ![w].todo = @ \ {k}], UNCHANGED <<pc, torn>>, Quiet
      PROVE  RunsHold'
  <2>1. /\ job'[w] = [job[w] EXCEPT !.todo = job[w].todo \ {k}]
        /\ \A v \in Workers \ {w} : job'[v] = job[v]
        /\ job' \in [Workers -> Jobs]
    BY <1>0, <1>1 DEF Jobs
  <2>2. /\ job'[w].act = job[w].act /\ job'[w].form = job[w].form
        /\ job'[w].todo = job[w].todo \ {k} /\ job'[w].level = job[w].level
    BY <1>0, <2>1 DEF Jobs
  <2>3. RequestsOK'
    <3>1. ASSUME NEW v \in Workers PROVE JobOK(v)'
      <4>1. CASE v = w
        BY <1>0, <1>1, <2>2, <4>1 DEF JobOK
      <4>2. CASE v # w
        BY <1>1, <2>1, <4>2 DEF JobOK, RequestsOK
      <4> QED BY <4>1, <4>2
    <3> QED BY <1>0, <1>1, <2>1, <3>1 DEF RequestsOK
  <2>4. k \in DOMAIN job[w].form /\ job[w].act = "form"
    BY <1>0 DEF JobOK
  <2>5. Written(w)' = Written(w) \cup {k} /\ \A v \in Workers \ {w} : Written(v)' = Written(v)
    BY <2>1, <2>2, <2>4 DEF Written
  <2>6. settings'[k] = job[w].form[k] /\ \A j \in Settings \ {k} : settings'[j] = settings[j]
    BY <1>1 DEF FormsOK
  <2>7. FormsHold'
    <3> SUFFICES ASSUME ~crossed'
                 PROVE  Alone' /\ WrittenHolds' /\ SaidHolds'
      BY DEF FormsHold
    <3>1. Alone /\ WrittenHolds /\ SaidHolds
      BY <1>1 DEF FormsHold, Quiet
    <3>2. \A v \in Workers : job'[v].act = job[v].act /\ job'[v].form = job[v].form
      BY <2>1, <2>2
    <3>3. Alone'
      BY <3>1, <3>2 DEF Alone, ClashOf
    <3>4. ASSUME NEW v \in Workers, v # w PROVE k \notin Written(v)
      <4>1. ~ClashOf(w, v)
        BY <3>1, <3>4 DEF Alone
      <4>2. JobOK(v)
        BY DEF RequestsOK
      <4> QED BY <2>4, <4>1, <4>2 DEF ClashOf, Clash, JobOK, Written
    <3>5. WrittenHolds'
      <4> SUFFICES ASSUME NEW v \in Workers, NEW j \in Written(v)' \cap Settings
                   PROVE  settings'[j] = job'[v].form[j]
        BY DEF WrittenHolds
      <4>1. CASE v = w /\ j = k
        BY <2>2, <2>6, <4>1
      <4>2. CASE v = w /\ j # k
        BY <2>2, <2>5, <2>6, <3>1, <4>2 DEF WrittenHolds
      <4>3. CASE v # w
        BY <2>1, <2>5, <2>6, <3>1, <3>4, <4>3 DEF WrittenHolds
      <4> QED BY <4>1, <4>2, <4>3
    <3>6. SaidHolds'
      <4> SUFFICES ASSUME NEW j \in Settings \ torn', \A v \in Workers : j \notin Written(v)'
                   PROVE  settings'[j] = said'[j]
        BY DEF SaidHolds
      <4>1. j # k /\ \A v \in Workers : j \notin Written(v)
        BY <2>5
      <4> QED BY <1>0, <1>1, <2>6, <3>1, <4>1 DEF SaidHolds
    <3> QED BY <3>3, <3>5, <3>6
  <2>8. KnobHolds'
    BY <1>0, <1>1, <2>1, KnobKeeps DEF KeepHost, Quiet
  <2>9. JournalHolds'
    BY <1>0, <1>1, JournalKeeps DEF KeepHost, Quiet
  <2> QED BY <2>3, <2>7, <2>8, <2>9
<1>2. ASSUME Finish(w), Tear(w), UNCHANGED settings, Quiet
      PROVE  RunsHold'
  <2>1. /\ RequestsOK' /\ pc'[w] = "idle" /\ job'[w] = NoJob
        /\ \A v \in Workers \ {w} : pc'[v] = pc[v] /\ job'[v] = job[v]
    BY <1>2, FinishIs
  <2>2. FormsHold'
    BY <1>0, <1>2, FormsFinish DEF Quiet
  <2>3. KnobHolds'
    BY <1>0, <1>2, <2>1, KnobKeeps DEF KeepHost, Quiet
  <2>4. JournalHolds'
    BY <1>0, <1>2, <2>1, JournalKeeps DEF KeepHost, Quiet
  <2> QED BY <2>1, <2>2, <2>3, <2>4
<1> QED BY <1>1, <1>2 DEF Write

\* The form is answered: everything it says is written.
LEMMA AnswerHolds ==
  ASSUME RunsHold, NEW w \in Workers, AnswerForm(w)
  PROVE  RunsHold'
<1> USE DEF RunsHold
<1>0. /\ pc[w] = "write" /\ job[w].todo = {} /\ KeepHost /\ Quiet /\ Finish(w)
      /\ settings' = settings /\ torn' = torn \ DOMAIN job[w].form
      /\ said' = [k \in Settings |->
                    IF k \in DOMAIN job[w].form THEN job[w].form[k] ELSE said[k]]
  BY DEF AnswerForm, At
<1>1. /\ RequestsOK' /\ pc'[w] = "idle" /\ job'[w] = NoJob
      /\ \A v \in Workers \ {w} : pc'[v] = pc[v] /\ job'[v] = job[v]
  BY <1>0, FinishIs
<1>2. Written(w) = DOMAIN job[w].form /\ Written(w)' = {}
  BY <1>0, <1>1, NoJobIs DEF Written
<1>3. \A v \in Workers \ {w} : Written(v)' = Written(v)
  BY <1>1 DEF Written
<1>4. FormsHold'
  <2> SUFFICES ASSUME ~crossed'
               PROVE  Alone' /\ WrittenHolds' /\ SaidHolds'
    BY DEF FormsHold
  <2>1. Alone /\ WrittenHolds /\ SaidHolds
    BY <1>0 DEF FormsHold, Quiet
  <2>2. Alone'
    BY <1>1, <2>1, NoJobIs DEF Alone, ClashOf, Clash, Journalling
  <2>3. WrittenHolds'
    BY <1>0, <1>1, <1>2, <1>3, <2>1 DEF WrittenHolds
  <2>4. SaidHolds'
    <3> SUFFICES ASSUME NEW k \in Settings \ torn', \A v \in Workers : k \notin Written(v)'
                 PROVE  settings'[k] = said'[k]
      BY DEF SaidHolds
    <3>1. CASE k \in DOMAIN job[w].form
      BY <1>0, <1>2, <2>1, <3>1 DEF WrittenHolds
    <3>2. CASE k \notin DOMAIN job[w].form
      <4>1. k \notin torn /\ \A v \in Workers : k \notin Written(v)
        BY <1>0, <1>2, <1>3, <3>2
      <4> QED BY <1>0, <2>1, <3>2, <4>1 DEF SaidHolds
    <3> QED BY <3>1, <3>2
  <2> QED BY <2>2, <2>3, <2>4
<1>5. KnobHolds'
  BY <1>0, <1>1, KnobKeeps DEF KeepHost, Quiet
<1>6. JournalHolds'
  BY <1>0, <1>1, JournalKeeps DEF KeepHost, Quiet
<1> QED BY <1>1, <1>4, <1>5, <1>6

\* The knob: with no other request for it in flight, the script that sets it is
\* the only one between its two commands.
LEMMA SetLiveHolds ==
  ASSUME RunsHold, NEW w \in Workers, SetLive(w)
  PROVE  RunsHold'
<1> USE DEF RunsHold
<1>0. /\ pc[w] = "live" /\ live' = job[w].level /\ Goto(w, "keep")
      /\ KeepForm /\ UNCHANGED <<kept, journal, dropin, vault>> /\ Quiet
  BY DEF SetLive, At
<1>1. /\ RequestsOK' /\ pc'[w] = "keep" /\ job' = job
      /\ \A v \in Workers \ {w} : pc'[v] = pc[v]
  <2>1. "keep" \in Labels /\ "keep" \notin Files
    BY DEF Labels, Files
  <2> QED BY <1>0, <2>1, GotoIs
<1>2. FormsHold'
  BY <1>0, <1>1, FormsKeep DEF Quiet
<1>3. KnobHolds'
  <2> SUFFICES ASSUME ~crossed'
               PROVE  \A v \in Workers : pc'[v] = "keep" => live' = job'[v].level
    BY <1>1 DEF KnobHolds
  <2> SUFFICES ASSUME NEW v \in Workers, pc'[v] = "keep", v # w
               PROVE  FALSE
    BY <1>0, <1>1
  <2>1. job[v].act = "swappiness" /\ job[w].act = "swappiness"
    BY <1>0, <1>1 DEF RequestsOK, JobOK
  <2>2. ~ClashOf(v, w)
    BY <1>0 DEF FormsHold, Alone, Quiet
  <2> QED BY <2>1, <2>2 DEF ClashOf, Clash
<1>4. JournalHolds'
  BY <1>0, <1>1, JournalKeeps DEF Quiet
<1> QED BY <1>1, <1>2, <1>3, <1>4

LEMMA SetKeptHolds ==
  ASSUME RunsHold, HostOK, Absent \notin Levels, NEW w \in Workers, SetKept(w)
  PROVE  RunsHold'
<1> USE DEF RunsHold
<1>0. /\ pc[w] = "keep" /\ kept' = job[w].level /\ Finish(w)
      /\ KeepForm /\ UNCHANGED <<live, journal, dropin, vault>>
      /\ parted' = parted \ {"swappiness"} /\ UNCHANGED crossed
  BY DEF SetKept, Passed, At
<1>1. /\ RequestsOK' /\ pc'[w] = "idle" /\ job'[w] = NoJob
      /\ \A v \in Workers \ {w} : pc'[v] = pc[v] /\ job'[v] = job[v]
  BY <1>0, FinishIs
<1>2. FormsHold'
  BY <1>0, FormsFinish
<1>3. KnobHolds'
  <2> SUFFICES ASSUME ~crossed'
               PROVE  /\ \A v \in Workers : pc'[v] = "keep" => live' = job'[v].level
                      /\ live' = OnBoot'
    BY DEF KnobHolds
  <2>1. ~crossed
    BY <1>0
  <2>2. live = job[w].level /\ job[w].level \in Levels /\ job[w].act = "swappiness"
    BY <1>0, <2>1 DEF KnobHolds, RequestsOK, JobOK
  <2>3. live' = OnBoot'
    BY <1>0, <2>2 DEF OnBoot
  <2>4. ASSUME NEW v \in Workers, pc'[v] = "keep" PROVE FALSE
    <3>1. v # w /\ pc[v] = "keep"
      BY <1>1, <2>4
    <3>2. job[v].act = "swappiness" /\ ~ClashOf(v, w)
      BY <2>1, <3>1 DEF RequestsOK, JobOK, FormsHold, Alone
    <3> QED BY <2>2, <3>2 DEF ClashOf, Clash
  <2> QED BY <2>3, <2>4
<1>4. JournalHolds'
  BY <1>0, <1>1, JournalKeeps
<1> QED BY <1>1, <1>2, <1>3, <1>4

\* The journal: whatever the scripts did to the files, the last of them to end
\* has journald read what they left.
LEMMA VaultHolds ==
  ASSUME RunsHold, NEW w \in Workers, Vault(w) \/ DropIn(w)
  PROVE  RunsHold'
<1> USE DEF RunsHold
<1>0. PICK p \in {"dropin", "undrop", "journald"} :
        /\ pc[w] \in {"mkdir", "rmdir", "dropin", "undrop"} /\ Goto(w, p)
        /\ KeepForm /\ UNCHANGED <<live, kept, journal>> /\ Quiet
  BY DEF Vault, DropIn, At
<1>1. /\ RequestsOK' /\ pc'[w] = p /\ job' = job
      /\ \A v \in Workers \ {w} : pc'[v] = pc[v]
  <2>1. p \in Labels /\ p \notin {"idle", "write", "live", "keep"} /\ pc[w] \in Files
    BY <1>0 DEF Labels, Files
  <2> QED BY <1>0, <2>1, GotoIs
<1>2. FormsHold'
  BY <1>0, <1>1, FormsKeep DEF Quiet
<1>3. KnobHolds'
  BY <1>0, <1>1, KnobKeeps DEF Quiet
<1>4. JournalHolds'
  BY <1>1 DEF JournalHolds
<1> QED BY <1>1, <1>2, <1>3, <1>4

LEMMA JournaldHolds ==
  ASSUME RunsHold, HostOK, NEW w \in Workers, Journald(w)
  PROVE  RunsHold'
<1> USE DEF RunsHold
<1>0. /\ pc[w] = "journald" /\ journal' = OnDisk /\ vault' = OnDisk /\ Finish(w)
      /\ KeepForm /\ UNCHANGED <<live, kept, dropin>>
      /\ parted' = parted \ {"journal"} /\ UNCHANGED crossed
  BY DEF Journald, Passed, At
<1>1. /\ RequestsOK' /\ pc'[w] = "idle" /\ job'[w] = NoJob
      /\ \A v \in Workers \ {w} : pc'[v] = pc[v] /\ job'[v] = job[v]
  BY <1>0, FinishIs
<1>2. FormsHold'
  BY <1>0, FormsFinish
<1>3. KnobHolds'
  <2>1. "swappiness" \in parted <=> "swappiness" \in parted'
    BY <1>0
  <2>2. OnBoot' = OnBoot
    BY <1>0 DEF OnBoot
  <2>3. \A v \in Workers : pc'[v] = "keep" <=> pc[v] = "keep"
    BY <1>0, <1>1
  <2> QED BY <1>0, <1>1, <2>1, <2>2, <2>3 DEF KnobHolds
<1>4. journal' = OnDisk'
  BY <1>0, Zenon DEF OnDisk
<1>5. JournalHolds'
  BY <1>4 DEF JournalHolds
<1> QED BY <1>1, <1>2, <1>3, <1>5

LEMMA FailHolds ==
  ASSUME RunsHold, NEW w \in Workers, Fail(w)
  PROVE  RunsHold'
<1> USE DEF RunsHold
<1>0. /\ pc[w] \in {"live", "keep"} \cup Files /\ Finish(w) /\ KeepForm /\ KeepHost
      /\ parted' = parted \cup {Knob(w)} /\ UNCHANGED crossed
  BY DEF Fail, Files
<1>1. /\ RequestsOK' /\ pc'[w] = "idle"
      /\ \A v \in Workers \ {w} : pc'[v] = pc[v] /\ job'[v] = job[v]
  BY <1>0, FinishIs
<1>2. FormsHold'
  BY <1>0, FormsFinish DEF Files
<1>3. CASE pc[w] \in {"live", "keep"}
  <2>1. "swappiness" \in parted' /\ parted \subseteq parted'
    BY <1>0, <1>3 DEF RequestsOK, JobOK, Knob
  <2>2. KnobHolds'
    BY <1>0, <1>1, <2>1 DEF KnobHolds, KeepHost
  <2>3. JournalHolds'
    BY <1>0, <1>1, <1>3, <2>1, JournalKeeps DEF KeepHost
  <2> QED BY <1>1, <1>2, <2>2, <2>3
<1>4. CASE pc[w] \in Files
  <2>1. "journal" \in parted' /\ parted \subseteq parted'
    BY <1>0, <1>4 DEF RequestsOK, JobOK, Knob
  <2>2. KnobHolds'
    BY <1>0, <1>1, <1>4, <2>1, KnobKeeps DEF KeepHost, Files
  <2>3. JournalHolds'
    BY <2>1 DEF JournalHolds
  <2> QED BY <1>1, <1>2, <2>2, <2>3
<1> QED BY <1>0, <1>3, <1>4

\* The host comes up: the kernel and journald read what is on the disk.
LEMMA BootHolds ==
  ASSUME RunsHold, Boot
  PROVE  RunsHold'
<1> USE DEF RunsHold
<1>0. /\ live' = OnBoot /\ journal' = OnDisk /\ vault' = OnDisk
      /\ pc' = [w \in Workers |-> "idle"] /\ job' = [w \in Workers |-> NoJob]
      /\ torn' = torn \cup UNION {Written(w) : w \in Workers}
      /\ UNCHANGED <<settings, said, crossed, kept, dropin>>
  BY DEF Boot
<1>1. RequestsOK' /\ \A w \in Workers : pc'[w] = "idle" /\ job'[w] = NoJob
  BY <1>0, AllIdleIs
<1>2. FormsHold'
  <2>1. torn \subseteq torn' /\ \A v \in Workers : Written(v) \subseteq torn'
    BY <1>0
  <2>2. Workers \in SUBSET Workers /\ \A v \in Workers \ Workers : job'[v] = job[v]
    OBVIOUS
  <2> QED BY <1>0, <1>1, <2>1, <2>2, FormsEnd
<1>3. OnBoot' = OnBoot
  BY <1>0 DEF OnBoot
<1>4. journal' = OnDisk'
  BY <1>0, Zenon DEF OnDisk
<1>5. KnobHolds' /\ JournalHolds'
  BY <1>0, <1>1, <1>3, <1>4 DEF KnobHolds, JournalHolds
<1> QED BY <1>1, <1>2, <1>5

\* The password, and the prunes.
LEMMA RestHolds ==
  ASSUME RunsHold, NEW w \in Workers,
         \/ CheckPassword(w)
         \/ At(w, "power") /\ Finish(w) /\ KeepForm /\ KeepHost /\ Quiet
         \/ PruneCache(w) \/ PruneImages(w) \/ PruneSystem(w)
  PROVE  RunsHold'
<1>1. KeepForm /\ KeepHost /\ Quiet
  BY DEF CheckPassword, PruneCache, PruneImages, PruneSystem
<1>2. pc[w] \notin {"write", "keep", "dropin", "undrop", "journald"}
  BY DEF CheckPassword, PruneCache, PruneImages, PruneSystem, At
<1>3. {"power", "builder", "images", "system"} \subseteq Labels \ ({"idle", "write", "live", "keep"} \cup Files)
  BY DEF Labels, Files
<1>4. \/ Finish(w)
      \/ \E p \in Labels \ ({"idle", "write", "live", "keep"} \cup Files) : Goto(w, p)
  BY <1>3 DEF CheckPassword, PruneCache, PruneImages, PruneSystem
<1> QED BY <1>1, <1>2, <1>4, StillHold

-----------------------------------------------------------------------------
(* The theorems.                                                           *)

AdminHolds == TypeOK /\ RunsHold

LEMMA InitHolds ==
  ASSUME Init
  PROVE  AdminHolds
<1> USE AdministrationAssumption DEF Init
<1>1. TypeOK
  <2>1. FormsOK
    BY DEF FormsOK
  <2>2. HostOK
    <3>1. live \in Levels /\ kept \in Levels \cup {Absent} /\ vault \in BOOLEAN /\ dropin \in BOOLEAN
      OBVIOUS
    <3>2. journal \in BOOLEAN
      BY DEF OnDisk
    <3> QED BY <3>1, <3>2 DEF HostOK
  <2>3. DockerOK
    BY DEF DockerOK
  <2>4. RestOK
    BY DEF RestOK
  <2> QED BY <2>1, <2>2, <2>3, <2>4, TypesAre
<1>2. \A w \in Workers : pc[w] = "idle" /\ job[w] = NoJob
  OBVIOUS
<1>3. RequestsOK
  BY <1>2, NoJobIs DEF RequestsOK, JobOK, Labels
<1>4. FormsHold
  <2>1. Alone /\ WrittenHolds
    BY <1>2, NoJobIs DEF Alone, ClashOf, Clash, Journalling, WrittenHolds, Written
  <2>2. SaidHolds
    BY DEF SaidHolds
  <2> QED BY <2>1, <2>2 DEF FormsHold
<1>5. KnobHolds
  BY <1>2 DEF KnobHolds, OnBoot
<1>6. JournalHolds
  BY DEF JournalHolds
<1> QED BY <1>1, <1>3, <1>4, <1>5, <1>6 DEF AdminHolds, RunsHold

\* A request that is made is one of Next's.
Asked(w) == \E a, form, level : Made(a, form, level) /\ Request(w, a, form, level)

LEMMA NextIs ==
  ASSUME Next
  PROVE  (\E w \in Workers : Asked(w) \/ Step(w)) \/ PowerCut
  BY DEF Next, Asked, Made

LEMMA FormsStep ==
  ASSUME AdminHolds, Next
  PROVE  FormsOK'
<1>0. FormsOK /\ RequestsOK
  BY TypesAre DEF AdminHolds, RunsHold
<1>1. CASE KeepForm
  BY <1>0, <1>1 DEF FormsOK, KeepForm
<1>2. ASSUME NEW w \in Workers, Write(w) PROVE FormsOK'
  <2>1. CASE UNCHANGED settings
    BY <1>0, <1>2, <2>1 DEF FormsOK, Write
  <2>2. ASSUME NEW k \in job[w].todo, k \in Settings,
               settings' = [settings EXCEPT ![k] = job[w].form[k]]
        PROVE  FormsOK'
    <3>1. job[w] \in Jobs /\ k \in DOMAIN job[w].form
      BY <1>0 DEF RequestsOK, JobOK
    <3>2. job[w].form \in Forms \cup {<<>>}
      BY <3>1 DEF Jobs
    <3>3. job[w].form[k] \in Values
      BY <3>1, <3>2, FormIs
    <3> QED BY <1>0, <1>2, <2>2, <3>3 DEF FormsOK, Write
  <2> QED BY <1>2, <2>1, <2>2 DEF Write
<1>3. ASSUME NEW w \in Workers, AnswerForm(w) PROVE FormsOK'
  <2>1. job[w].form \in Forms \cup {<<>>}
    BY <1>0 DEF RequestsOK, Jobs
  <2>2. \A k \in DOMAIN job[w].form : job[w].form[k] \in Values
    BY <2>1, FormIs
  <2> QED BY <1>0, <1>3, <2>2 DEF FormsOK, AnswerForm
<1>4. CASE Boot
  BY <1>0, <1>4 DEF FormsOK, Boot
<1>5. ASSUME NEW w \in Workers, Asked(w) PROVE FormsOK'
  BY <1>1, <1>5 DEF Asked, Request
<1>6. ASSUME NEW w \in Workers, Step(w) PROVE FormsOK'
  BY <1>1, <1>2, <1>3, <1>4, <1>6
     DEF Step, SetLive, SetKept, Vault, DropIn, Journald, Fail, CheckPassword, Power,
         PruneCache, PruneImages, PruneSystem
<1> QED BY <1>4, <1>5, <1>6, NextIs DEF PowerCut

LEMMA HostStep ==
  ASSUME AdminHolds, Next
  PROVE  HostOK'
<1> USE AdministrationAssumption
<1>0. HostOK /\ RequestsOK
  BY TypesAre DEF AdminHolds, RunsHold
<1>1. CASE KeepHost
  BY <1>0, <1>1 DEF HostOK, KeepHost
<1>2. CASE Boot
  <2>1. OnBoot \in Levels /\ OnDisk \in BOOLEAN
    BY <1>0 DEF OnBoot, OnDisk, HostOK
  <2> QED BY <1>0, <1>2, <2>1 DEF HostOK, Boot
<1>3. ASSUME NEW w \in Workers, SetLive(w) \/ SetKept(w) PROVE HostOK'
  <2>1. job[w].level \in Levels
    BY <1>0, <1>3 DEF RequestsOK, JobOK, SetLive, SetKept, At
  <2> QED BY <1>0, <1>3, <2>1 DEF HostOK, SetLive, SetKept
<1>4. ASSUME NEW w \in Workers, Vault(w) \/ DropIn(w) PROVE HostOK'
  BY <1>0, <1>4 DEF HostOK, Vault, DropIn
<1>5. ASSUME NEW w \in Workers, Journald(w) PROVE HostOK'
  <2>1. OnDisk \in BOOLEAN
    BY DEF OnDisk
  <2> QED BY <1>0, <1>5, <2>1 DEF HostOK, Journald
<1>6. ASSUME NEW w \in Workers, Asked(w) PROVE HostOK'
  BY <1>1, <1>6 DEF Asked, Request
<1>7. ASSUME NEW w \in Workers, Step(w) PROVE HostOK'
  BY <1>1, <1>2, <1>3, <1>4, <1>5, <1>7
     DEF Step, Write, AnswerForm, Fail, CheckPassword, Power,
         PruneCache, PruneImages, PruneSystem
<1> QED BY <1>2, <1>6, <1>7, NextIs DEF PowerCut

LEMMA DockerStep ==
  ASSUME AdminHolds, Next
  PROVE  DockerOK'
<1>0. DockerOK
  BY TypesAre DEF AdminHolds
<1>1. CASE KeepDocker
  BY <1>0, <1>1 DEF DockerOK, KeepDocker
<1>2. ASSUME NEW w \in Workers, PruneCache(w) PROVE DockerOK'
  BY <1>0, <1>2 DEF DockerOK, PruneCache
<1>3. ASSUME NEW w \in Workers, PruneImages(w) \/ PruneSystem(w) PROVE DockerOK'
  BY <1>0, <1>3 DEF DockerOK, PruneImages, PruneSystem
<1>4. ASSUME NEW w \in Workers, Asked(w) PROVE DockerOK'
  BY <1>1, <1>4 DEF Asked, Request
<1>5. ASSUME NEW w \in Workers, Step(w) PROVE DockerOK'
  BY <1>1, <1>2, <1>3, <1>5
     DEF Step, Write, AnswerForm, SetLive, SetKept, Vault, DropIn, Journald, Fail,
         CheckPassword, Power, Boot
<1> QED BY <1>1, <1>4, <1>5, NextIs DEF PowerCut, Boot

LEMMA RestStep ==
  ASSUME AdminHolds, Next
  PROVE  RestOK'
<1>0. RestOK
  BY TypesAre DEF AdminHolds
<1>1. left' \in Nat
  <2>1. CASE PowerCut
    BY <1>0, <2>1 DEF PowerCut, RestOK
  <2>2. ASSUME NEW w \in Workers, Asked(w) PROVE left' \in Nat
    BY <1>0, <2>2 DEF Asked, Request, RestOK
  <2>3. ASSUME NEW w \in Workers, Step(w) PROVE left' \in Nat
    BY <1>0, <2>3 DEF Step, RestOK
  <2> QED BY <2>1, <2>2, <2>3, NextIs
<1>2. crossed' \in BOOLEAN
  <2>1. CASE UNCHANGED crossed
    BY <1>0, <2>1 DEF RestOK
  <2>2. ASSUME NEW w \in Workers, Asked(w) PROVE crossed' \in BOOLEAN
    BY <1>0, <2>2 DEF RestOK, Asked, Request
  <2>3. ASSUME NEW w \in Workers, Step(w) PROVE UNCHANGED crossed
    BY <2>3
       DEF Step, Quiet, Passed, Write, AnswerForm, SetLive, SetKept, Vault, DropIn, Journald,
           Fail, CheckPassword, Power, Boot, PruneCache, PruneImages, PruneSystem
  <2> QED BY <2>1, <2>2, <2>3, NextIs DEF PowerCut, Boot
<1>3. parted' \subseteq {"swappiness", "journal"}
  <2>1. CASE UNCHANGED parted
    BY <1>0, <2>1 DEF RestOK
  <2>2. CASE Boot
    BY <2>2 DEF Boot
  <2>3. ASSUME NEW w \in Workers, Step(w) PROVE parted' \subseteq {"swappiness", "journal"}
    <3>1. CASE Fail(w) \/ SetKept(w) \/ Journald(w)
      BY <1>0, <3>1 DEF RestOK, Fail, Knob, SetKept, Journald, Passed
    <3> QED BY <2>1, <2>2, <2>3, <3>1
         DEF Step, Quiet, Write, AnswerForm, SetLive, Vault, DropIn, CheckPassword, Power,
             PruneCache, PruneImages, PruneSystem
  <2> QED BY <2>1, <2>2, <2>3, NextIs DEF PowerCut, Asked, Request
<1>4. torn' \subseteq Settings \cup {Unknown}
  <2>0. \A w \in Workers : Written(w) \subseteq Keys
    <3>1. \A w \in Workers : job[w].form \in Forms \cup {<<>>}
      BY DEF AdminHolds, RunsHold, RequestsOK, Jobs
    <3>2. \A w \in Workers : DOMAIN job[w].form \subseteq Keys
      BY <3>1, FormIs
    <3> QED BY <3>2 DEF Written
  <2>1. CASE UNCHANGED torn
    BY <1>0, <2>1 DEF RestOK
  <2>2. CASE Boot
    BY <1>0, <2>0, <2>2 DEF RestOK, Boot, Keys
  <2>3. ASSUME NEW w \in Workers, Step(w) PROVE torn' \subseteq Settings \cup {Unknown}
    <3>1. CASE Write(w) \/ AnswerForm(w)
      BY <1>0, <2>0, <3>1 DEF RestOK, Write, AnswerForm, Tear, Keys
    <3> QED BY <2>1, <2>2, <2>3, <3>1
         DEF Step, KeepForm, SetLive, SetKept, Vault, DropIn, Journald, Fail, CheckPassword,
             Power, PruneCache, PruneImages, PruneSystem
  <2> QED BY <2>1, <2>2, <2>3, NextIs DEF PowerCut, Asked, Request, KeepForm
<1> QED BY <1>1, <1>2, <1>3, <1>4 DEF RestOK

LEMMA RunsStep ==
  ASSUME AdminHolds, Next
  PROVE  RunsHold'
<1> USE AdministrationAssumption
<1>0. RunsHold /\ FormsOK /\ HostOK
  BY TypesAre DEF AdminHolds
<1>1. CASE PowerCut
  BY <1>0, <1>1, BootHolds DEF PowerCut
<1>2. ASSUME NEW w \in Workers, Asked(w) PROVE RunsHold'
  BY <1>0, <1>2, RequestHolds DEF Asked
<1>3. ASSUME NEW w \in Workers, Step(w) PROVE RunsHold'
  <2>1. CASE Write(w)
    BY <1>0, <2>1, WriteHolds
  <2>2. CASE AnswerForm(w)
    BY <1>0, <2>2, AnswerHolds
  <2>3. CASE SetLive(w)
    BY <1>0, <2>3, SetLiveHolds
  <2>4. CASE SetKept(w)
    BY <1>0, <2>4, SetKeptHolds
  <2>5. CASE Vault(w) \/ DropIn(w)
    BY <1>0, <2>5, VaultHolds
  <2>6. CASE Journald(w)
    BY <1>0, <2>6, JournaldHolds
  <2>7. CASE Fail(w)
    BY <1>0, <2>7, FailHolds
  <2>8. CASE Boot
    BY <1>0, <2>8, BootHolds
  <2>9. CASE \/ CheckPassword(w)
             \/ At(w, "power") /\ Finish(w) /\ KeepForm /\ KeepHost /\ Quiet
             \/ PruneCache(w) \/ PruneImages(w) \/ PruneSystem(w)
    BY <1>0, <2>9, RestHolds
  <2> QED BY <1>3, <2>1, <2>2, <2>3, <2>4, <2>5, <2>6, <2>7, <2>8, <2>9 DEF Step, Power
<1> QED BY <1>1, <1>2, <1>3, NextIs

LEMMA StutterHolds ==
  ASSUME AdminHolds, UNCHANGED vars
  PROVE  AdminHolds'
<1>1. TypeOK'
  BY DEF vars, AdminHolds, TypeOK
<1>2. RequestsOK'
  BY DEF vars, AdminHolds, RunsHold, RequestsOK, JobOK
<1>3. FormsHold'
  BY FormsKeep DEF vars, AdminHolds, RunsHold, KeepForm
<1>4. KnobHolds'
  BY KnobKeeps DEF vars, AdminHolds, RunsHold
<1>5. JournalHolds'
  BY JournalKeeps DEF vars, AdminHolds, RunsHold
<1> QED BY <1>1, <1>2, <1>3, <1>4, <1>5 DEF AdminHolds, RunsHold

LEMMA AdminIsInvariant == Spec => []AdminHolds
<1>1. AdminHolds /\ [Next]_vars => AdminHolds'
  <2>1. ASSUME AdminHolds, Next PROVE AdminHolds'
    <3>1. FormsOK' /\ HostOK' /\ DockerOK' /\ RestOK' => TypeOK'
      BY DEF TypeOK, FormsOK, HostOK, DockerOK, RestOK
    <3> QED BY <2>1, <3>1, FormsStep, HostStep, DockerStep, RestStep, RunsStep DEF AdminHolds
  <2> QED BY <2>1, StutterHolds
<1> QED BY <1>1, InitHolds, PTL DEF Spec

\* The settings are those of the newest forms that were answered, and of those
\* being written, whoever else writes, is refused, fails or is cut off, unless
\* two forms for one key crossed; the keys a form had written when it was given
\* up hold again from the next form answered for them (settings.go:71-104).
THEOREM SettingsAreAnswered == Spec => []AdministrationInv
<1>1. AdminHolds => AdministrationInv
  <2> SUFFICES ASSUME AdminHolds, ~crossed, NEW k \in Settings \ torn
               PROVE  \/ settings[k] = said[k]
                      \/ \E w \in Workers : k \in Written(w) /\ settings[k] = job[w].form[k]
    BY DEF AdminHolds, AdministrationInv, SettingsHold
  <2>1. WrittenHolds /\ SaidHolds
    BY DEF AdminHolds, RunsHold, FormsHold
  <2> QED BY <2>1 DEF WrittenHolds, SaidHolds
<1> QED BY <1>1, AdminIsInvariant, PTL

\* What the kernel and journald do is what they will do after the next boot,
\* once no script is half way: the script that goes through, and a boot, mend
\* what an earlier one left half way (agent main.go:1157-1195).
THEOREM TuningIsKept == Spec => []TuningSurvives
<1>1. AdminHolds => TuningSurvives
  <2> SUFFICES ASSUME AdminHolds, \A w \in Workers : ~Scripted(w)
               PROVE  /\ ~crossed /\ "swappiness" \notin parted => live = OnBoot
                      /\ "journal" \notin parted => journal = OnDisk
    BY DEF TuningSurvives
  <2>1. ~crossed /\ "swappiness" \notin parted => live = OnBoot
    BY DEF AdminHolds, RunsHold, KnobHolds, Scripted
  <2>2. "journal" \notin parted => journal = OnDisk
    BY DEF AdminHolds, RunsHold, JournalHolds, Scripted
  <2> QED BY <2>1, <2>2
<1> QED BY <1>1, AdminIsInvariant, PTL
===============================================================================
