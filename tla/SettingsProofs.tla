--------------------------- MODULE SettingsProofs ---------------------------
(***************************************************************************)
(* Proofs about Settings, for any configuration file, any options that     *)
(* InputsAssumption allows and any disk.  The two front ends take their    *)
(* options in different orders; FrontEndInv says in closed form which      *)
(* settings each has in hand, and the run is given, after any of them.     *)
(***************************************************************************)
EXTENDS Settings, TLAPS

Min == "minimum_question_idf_threshold"
Threshold == "contamination_score_threshold"

Loaded == IF input.file = NoFile \/ Unreadable THEN Default ELSE FromFile

(* The settings of a Python program that has the options rest still to set. *)
Submitted(rest) ==
    Current([o \in Options |-> IF o \in DOMAIN input.args \ rest THEN input.args[o]
                                                                 ELSE Loaded[o]])

(* What the checks of a front end see, and whether they let it pass.       *)
Final(f) == IF f = "cli" THEN Overridden(Loaded) ELSE Sampled(Current(Submitted({})))
Given(f) == IF input.command = "detect" THEN WithCleanedDir(Final(f)) ELSE Placed(Final(f))
Accepted(f) ==
    IF input.command = "detect" THEN Given(f).training_dir # "" /\ Valid(Given(f))
                                ELSE ValidServer(Given(f))
Directories(f) == IF input.command = "server" THEN Made(Given(f)) ELSE {}
Ready(f) == IF input.command = "server" THEN WithCleanedDir(Given(f)) ELSE Given(f)

Readable == ~Unreadable
Before == {"load", "override", "check", "set"}

AtFrontEnd(f) ==
    /\ phase[f] \in Before => run[f] = None /\ made[f] = {}
    /\ phase[f] = "panic" => run[f] = None /\ made[f] = {} /\ ~Readable
    /\ phase[f] \in {"override", "check", "set", "given", "refused", "running", "unsupported"} =>
         Readable
    /\ phase[f] \in {"given", "refused", "running", "unsupported"} => made[f] = Directories(f)
    /\ phase[f] = "refused" => ~Accepted(f) /\ run[f] = None
    /\ phase[f] \in {"given", "running", "unsupported"} => Accepted(f)
    /\ phase[f] = "given" => run[f] = Given(f)
    /\ phase[f] \in {"running", "unsupported"} =>
         /\ run[f] = Ready(f)
         /\ phase[f] = "running" <=> Given(f).mode = "simple"

Types ==
    /\ input \in Inputs
    /\ phase \in [FrontEnds -> Before \cup {"given", "refused", "running", "unsupported", "panic"}]
    /\ phase["cli"] # "set" /\ phase["python"] \notin {"override", "check"}
    /\ DOMAIN settings = FrontEnds /\ DOMAIN run = FrontEnds /\ DOMAIN made = FrontEnds
    /\ settings = [f \in FrontEnds |-> settings[f]]
    /\ run = [f \in FrontEnds |-> run[f]]
    /\ made = [f \in FrontEnds |-> made[f]]
    /\ todo \subseteq DOMAIN input.args
    /\ phase["python"] = "load" => todo = DOMAIN input.args

FrontEndInv ==
    /\ Types
    /\ \A f \in FrontEnds : AtFrontEnd(f)
    /\ phase["cli"] = "override" => settings["cli"] = Loaded
    /\ phase["cli"] = "check" => settings["cli"] = Final("cli")
    /\ phase["python"] \notin {"load", "panic"} => settings["python"] = Submitted(todo)
    /\ phase["python"] = "panic" => settings["python"] = Current(Default)

-----------------------------------------------------------------------------
(* The operators on settings, in closed form. *)

IsSettings(s) == s = [o \in Options |-> s[o]]

LEMMA OptionsAre ==
    Options = {"mode", "ngram_size", "training_dir", "evals_dir", "report_output_dir",
               "cleaned_output_dir", "purify", "sample_every_m_tokens",
               "contamination_score_threshold", "minimum_question_idf_threshold",
               "perfect_match_decay_start", "perfect_match_decay_end", "eval_dedup", "verbose"}
  BY DEF Options, Default

LEMMA CurrentIs ==
    ASSUME NEW s, IsSettings(s)
    PROVE  Current(s) = [o \in Options |-> IF o = Min THEN MinimumQuestion(s[Threshold]) ELSE s[o]]
  BY OptionsAre DEF Current, IsSettings, Min, Threshold

LEMMA SampledIs ==
    ASSUME NEW s, IsSettings(s)
    PROVE  Sampled(s) = [o \in Options |->
               IF o = "sample_every_m_tokens" THEN (IF s[o] < 1 THEN 1 ELSE s[o]) ELSE s[o]]
  BY OptionsAre DEF Sampled, IsSettings

LEMMA WithCleanedDirIs ==
    ASSUME NEW s, IsSettings(s)
    PROVE  WithCleanedDir(s) = [o \in Options |->
               IF o = "cleaned_output_dir" /\ s["purify"] /\ s[o] = None
                 THEN "temporary-cleaned" ELSE s[o]]
  BY OptionsAre DEF WithCleanedDir, IsSettings

LEMMA PlacedIs ==
    ASSUME NEW s, IsSettings(s)
    PROVE  Placed(s) = [o \in Options |-> IF o = "training_dir" /\ s[o] = "" THEN "." ELSE s[o]]
  BY OptionsAre DEF Placed, IsSettings

LEMMA FileIs ==
    /\ input.file = NoFile => Readable /\ Loaded = Default
    /\ ~Readable => Loaded = Default
    /\ input.file # NoFile /\ Readable => Loaded = FromFile /\ input.file \notin {NoFile, Broken}
  BY NamesAssumption DEF Readable, Unreadable, Loaded

LEMMA LoadedIs == IsSettings(Loaded) /\ IsSettings(Default)
  BY DEF Loaded, FromFile, With, IsSettings, Options, Default

LEMMA SubmittedIs ==
    ASSUME NEW rest
    PROVE  /\ IsSettings(Submitted(rest))
           /\ \A o \in Options \ {Min} :
                Submitted(rest)[o] = IF o \in DOMAIN input.args \ rest THEN input.args[o]
                                                                       ELSE Loaded[o]
           /\ Submitted(rest)[Min] = MinimumQuestion(Submitted(rest)[Threshold])
  <1> DEFINE s == [o \in Options |-> IF o \in DOMAIN input.args \ rest THEN input.args[o]
                                                                      ELSE Loaded[o]]
  <1>1. IsSettings(s)
    BY DEF IsSettings
  <1>2. Submitted(rest)
          = [o \in Options |-> IF o = Min THEN MinimumQuestion(s[Threshold]) ELSE s[o]]
    BY <1>1, CurrentIs DEF Submitted
  <1>3. Min \in Options /\ Threshold \in Options /\ Min # Threshold
    BY OptionsAre DEF Min, Threshold
  <1> QED BY <1>2, <1>3 DEF IsSettings

(* The order in which options are set does not matter. *)
LEMMA SetOption ==
    ASSUME input \in Inputs, NEW rest \in SUBSET DOMAIN input.args, NEW o \in rest
    PROVE  LET s == [Submitted(rest) EXCEPT ![o] = input.args[o]]
           IN  Submitted(rest \ {o}) = IF o = Threshold THEN Current(s) ELSE s
  <1> DEFINE s == [Submitted(rest) EXCEPT ![o] = input.args[o]]
             after == Submitted(rest \ {o})
  <1>1. o \in Options \ {Min}
    BY InputsAssumption DEF Min
  <1>2. Threshold \in Options \ {Min} /\ Min \in Options
    BY OptionsAre DEF Min, Threshold
  <1>3. IsSettings(s) /\ IsSettings(after)
    BY SubmittedIs DEF IsSettings
  <1>4. \A p \in Options \ {Min} : after[p] = s[p]
    BY <1>1, SubmittedIs DEF IsSettings
  <1>5. after[Min] = MinimumQuestion(s[Threshold])
    BY <1>2, <1>4, SubmittedIs
  <1>6. CASE o = Threshold
    <2>1. Current(s)
            = [p \in Options |-> IF p = Min THEN MinimumQuestion(s[Threshold]) ELSE s[p]]
      BY <1>3, CurrentIs
    <2> QED BY <1>3, <1>4, <1>5, <1>6, <2>1 DEF IsSettings
  <1>7. CASE o # Threshold
    <2>1. s[Min] = after[Min]
      BY <1>1, <1>2, <1>5, <1>7, SubmittedIs DEF IsSettings
    <2> QED BY <1>3, <1>4, <1>7, <2>1 DEF IsSettings
  <1> QED BY <1>6, <1>7

LEMMA SubmittedAll ==
    /\ Submitted(DOMAIN input.args) = Current(Loaded)
    /\ Submitted({}) = Current(With(Loaded, input.args))
  <1>1. [o \in Options |-> IF o \in DOMAIN input.args \ DOMAIN input.args THEN input.args[o]
                                                                          ELSE Loaded[o]]
          = Loaded
    BY LoadedIs DEF IsSettings
  <1> QED BY <1>1 DEF Submitted, With

LEMMA FinalIsSettings == IsSettings(Final("cli")) /\ IsSettings(Final("python"))
  <1>1. ASSUME NEW s, IsSettings(s)
        PROVE  IsSettings(Current(s)) /\ IsSettings(Sampled(s))
    BY <1>1, CurrentIs, SampledIs DEF IsSettings
  <1>2. IsSettings(With(Loaded, input.args))
    BY DEF With, IsSettings
  <1>3. ASSUME NEW s, NEW d, NEW p, IsSettings(s)
        PROVE  IsSettings([s EXCEPT !.evals_dir = d, !.purify = p])
    BY <1>3, OptionsAre DEF IsSettings
  <1>4. IsSettings(Final("cli"))
    BY <1>1, <1>2, <1>3 DEF Final, Overridden
  <1>5. IsSettings(Final("python"))
    BY <1>1, SubmittedIs DEF Final
  <1> QED BY <1>4, <1>5

(* The check before or after the cleaned directory is chosen is the same.   *)
LEMMA CleanedDirAside ==
    ASSUME NEW s, IsSettings(s)
    PROVE  /\ s.training_dir = WithCleanedDir(s).training_dir
           /\ Valid(s) <=> Valid(WithCleanedDir(s))
  <1>1. \A o \in Options \ {"cleaned_output_dir"} : WithCleanedDir(s)[o] = s[o]
    BY WithCleanedDirIs
  <1> QED BY <1>1, OptionsAre DEF Valid

-----------------------------------------------------------------------------
(* The invariant. *)

LEMMA FrontEndInit == Init => FrontEndInv
  BY DEF Init, FrontEndInv, Types, AtFrontEnd, Before, FrontEnds

(* What a front end is given depends on the input, which never changes.    *)
LEMMA InputDecides ==
    ASSUME input' = input, NEW f
    PROVE  /\ Loaded' = Loaded
           /\ Readable' <=> Readable
           /\ \A rest : Submitted(rest)' = Submitted(rest)
           /\ Final(f)' = Final(f)
           /\ Given(f)' = Given(f)
           /\ Ready(f)' = Ready(f)
           /\ Accepted(f)' <=> Accepted(f)
           /\ Directories(f)' = Directories(f)
  <1>1. Loaded' = Loaded
    BY DEF Loaded, Unreadable, FromFile
  <1>9. Readable' <=> Readable
    BY DEF Readable, Unreadable
  <1>2. \A rest : Submitted(rest)' = Submitted(rest)
    BY <1>1 DEF Submitted
  <1>3. Overridden(Loaded)' = Overridden(Loaded)
    BY <1>1 DEF Overridden, EvalsDir, HasReferences
  <1>4. Final(f)' = Final(f)
    BY <1>2, <1>3 DEF Final
  <1>5. Given(f)' = Given(f)
    BY <1>4 DEF Given
  <1>6. Ready(f)' = Ready(f)
    BY <1>5 DEF Ready
  <1>7. Accepted(f)' <=> Accepted(f)
    BY <1>5 DEF Accepted, Valid, ValidServer, HasData, Outputs
  <1>8. Directories(f)' = Directories(f)
    BY <1>5 DEF Directories, Made, HasData, Outputs
  <1> QED BY <1>1, <1>2, <1>4, <1>5, <1>6, <1>7, <1>8, <1>9

LEMMA Elsewhere ==
    ASSUME NEW f \in FrontEnds, AtFrontEnd(f), input' = input,
           phase'[f] = phase[f], run'[f] = run[f], made'[f] = made[f]
    PROVE  AtFrontEnd(f)'
  BY InputDecides DEF AtFrontEnd

LEMMA FrontEndStep == FrontEndInv /\ [Next]_vars => FrontEndInv'
  <1> SUFFICES ASSUME FrontEndInv, [Next]_vars PROVE FrontEndInv'
    OBVIOUS
  <1> USE DEF FrontEnds, Before, Becomes, Holds
  <1>1. CASE CliLoad
    <2>1. input' = input
      BY <1>1 DEF CliLoad
    <2>2. Loaded' = Loaded /\ (Readable' <=> Readable)
      BY <2>1, InputDecides
    <2>3. AtFrontEnd("python")'
      BY <1>1, <2>1, Elsewhere DEF CliLoad, FrontEndInv, Types
    <2>4. AtFrontEnd("cli")'
      BY <1>1, <2>2 DEF CliLoad, FrontEndInv, Types, AtFrontEnd, Readable
    <2>5. Types'
      BY <1>1 DEF CliLoad, FrontEndInv, Types
    <2>6. phase'["cli"] = "override" => settings'["cli"] = Loaded
      BY <1>1, <2>2 DEF CliLoad, FrontEndInv, Types, Loaded
    <2> QED
      BY <1>1, <2>1, <2>2, <2>3, <2>4, <2>5, <2>6
         DEF CliLoad, FrontEndInv, Types, Submitted
  <1>2. CASE CliOverride
    <2>1. settings["cli"] = Loaded /\ input' = input
      BY <1>2 DEF CliOverride, FrontEndInv
    <2>2. settings'["cli"] = Final("cli")
      BY <1>2, <2>1 DEF CliOverride, FrontEndInv, Types, Final
    <2>3. AtFrontEnd("python")' /\ AtFrontEnd("cli")'
      BY <1>2, <2>1, Elsewhere, InputDecides DEF CliOverride, FrontEndInv, Types, AtFrontEnd
    <2>4. Types'
      BY <1>2 DEF CliOverride, FrontEndInv, Types
    <2>5. UNCHANGED <<phase["python"], settings["python"], todo>> /\ phase'["cli"] = "check"
      BY <1>2 DEF CliOverride, FrontEndInv, Types
    <2> QED BY <2>1, <2>2, <2>3, <2>4, <2>5, InputDecides DEF FrontEndInv
  <1>3. CASE CliDetect \/ CliServer
    <2>1. /\ settings["cli"] = Final("cli") /\ phase["cli"] = "check"
          /\ UNCHANGED <<input, settings, todo, phase["python"], run["python"], made["python"]>>
      BY <1>3 DEF CliDetect, CliServer, Give, FrontEndInv, Types
    <2>2. /\ phase'["cli"] = IF Accepted("cli") THEN "given" ELSE "refused"
          /\ run'["cli"] = IF Accepted("cli") THEN Given("cli") ELSE None
          /\ made'["cli"] = Directories("cli")
      <3>1. CASE CliDetect
        <4>1. /\ Final("cli").training_dir = WithCleanedDir(Final("cli")).training_dir
              /\ Valid(Final("cli")) <=> Valid(WithCleanedDir(Final("cli")))
          BY FinalIsSettings, CleanedDirAside
        <4> QED
          BY <2>1, <3>1, <4>1
             DEF CliDetect, Give, FrontEndInv, Types, Accepted, Given, Directories, AtFrontEnd
      <3>2. CASE CliServer
        BY <2>1, <3>2
           DEF CliServer, Give, FrontEndInv, Types, Accepted, Given, Directories
      <3> QED BY <1>3, <3>1, <3>2
    <2>3. AtFrontEnd("cli")'
      BY <2>1, <2>2, InputDecides DEF FrontEndInv, AtFrontEnd
    <2>4. AtFrontEnd("python")'
      BY <2>1, Elsewhere DEF FrontEndInv
    <2>5. Types'
      <3>1. CASE CliDetect
        BY <3>1 DEF CliDetect, Give, FrontEndInv, Types
      <3>2. CASE CliServer
        BY <3>2 DEF CliServer, Give, FrontEndInv, Types
      <3> QED BY <1>3, <3>1, <3>2
    <2> QED BY <2>1, <2>2, <2>3, <2>4, <2>5, InputDecides DEF FrontEndInv
  <1>4. CASE PyRead \/ PyDefault
    <2>1. /\ phase["python"] = "load" /\ todo = DOMAIN input.args
          /\ UNCHANGED <<input, todo, settings["cli"], phase["cli"], run, made>>
      BY <1>4 DEF PyRead, PyDefault, FrontEndInv, Types
    <2>2. /\ phase'["python"] = IF Readable THEN "set" ELSE "panic"
          /\ settings'["python"] = IF Readable THEN Current(Loaded) ELSE Current(Default)
      <3>1. CASE PyRead
        BY <3>1, FileIs DEF PyRead, FrontEndInv, Types, Readable
      <3>2. CASE PyDefault
        BY <3>2, FileIs DEF PyDefault, FrontEndInv, Types
      <3> QED BY <1>4, <3>1, <3>2
    <2>3. AtFrontEnd("python")'
      BY <2>1, <2>2, InputDecides DEF FrontEndInv, AtFrontEnd
    <2>4. AtFrontEnd("cli")'
      BY <2>1, Elsewhere DEF FrontEndInv
    <2>5. Types'
      BY <1>4 DEF PyRead, PyDefault, FrontEndInv, Types
    <2> QED BY <2>1, <2>2, <2>3, <2>4, <2>5, InputDecides, SubmittedAll DEF FrontEndInv
  <1>5. CASE PyNew
    <2>1. /\ phase["python"] = "load" /\ todo' = {} /\ phase'["python"] = "set"
          /\ UNCHANGED <<input, settings["cli"], phase["cli"], run, made>>
          /\ Readable /\ Loaded = Default
      BY <1>5, FileIs DEF PyNew, FrontEndInv, Types
    <2>2. settings'["python"] = Submitted(todo')
      BY <1>5, <2>1, SubmittedAll DEF PyNew, FrontEndInv, Types
    <2>3. AtFrontEnd("python")'
      BY <2>1, InputDecides DEF FrontEndInv, AtFrontEnd
    <2>4. AtFrontEnd("cli")'
      BY <2>1, Elsewhere DEF FrontEndInv
    <2>5. Types'
      BY <1>5 DEF PyNew, FrontEndInv, Types
    <2> QED BY <2>1, <2>2, <2>3, <2>4, <2>5, InputDecides DEF FrontEndInv
  <1>6. CASE PySet \/ PySetThreshold
    <2>1. PICK o \in todo :
            /\ todo' = todo \ {o}
            /\ settings' = [settings EXCEPT !["python"] =
                 LET s == [settings["python"] EXCEPT ![o] = input.args[o]]
                 IN  IF o = Threshold THEN Current(s) ELSE s]
      BY <1>6 DEF PySet, PySetThreshold, IsSet, Threshold
    <2>2. /\ phase["python"] = "set" /\ UNCHANGED <<input, phase, run, made>>
          /\ todo \in SUBSET DOMAIN input.args /\ input \in Inputs
          /\ settings["python"] = Submitted(todo)
      BY <1>6 DEF PySet, PySetThreshold, IsSet, FrontEndInv, Types
    <2>3. settings'["python"] = Submitted(todo') /\ settings'["cli"] = settings["cli"]
      BY <2>1, <2>2, SetOption DEF FrontEndInv, Types
    <2>4. AtFrontEnd("python")' /\ AtFrontEnd("cli")'
      BY <2>2, Elsewhere DEF FrontEndInv
    <2>5. Types'
      BY <2>1, <2>2 DEF FrontEndInv, Types
    <2> QED BY <2>2, <2>3, <2>4, <2>5, InputDecides DEF FrontEndInv
  <1>7. CASE PyDetect \/ PyServer
    <2>1. /\ settings["python"] = Submitted({}) /\ phase["python"] = "set" /\ todo = {}
          /\ UNCHANGED <<input, settings, todo, phase["cli"], run["cli"], made["cli"]>>
      BY <1>7 DEF PyDetect, PyServer, Give, FrontEndInv, Types
    <2>2. Copy = Final("python")
      BY <2>1 DEF Copy, Final
    <2>3. /\ phase'["python"] = IF Accepted("python") THEN "given" ELSE "refused"
          /\ run'["python"] = IF Accepted("python") THEN Given("python") ELSE None
          /\ made'["python"] = Directories("python")
      BY <1>7, <2>1, <2>2
         DEF PyDetect, PyServer, Give, FrontEndInv, Types, Accepted, Given, Directories,
             AtFrontEnd
    <2>4. AtFrontEnd("python")'
      BY <2>1, <2>3, InputDecides DEF FrontEndInv, AtFrontEnd
    <2>5. AtFrontEnd("cli")'
      BY <2>1, Elsewhere DEF FrontEndInv
    <2>6. Types'
      <3>1. CASE PyDetect
        BY <3>1 DEF PyDetect, Give, FrontEndInv, Types
      <3>2. CASE PyServer
        BY <3>2 DEF PyServer, Give, FrontEndInv, Types
      <3> QED BY <1>7, <3>1, <3>2
    <2> QED BY <2>1, <2>3, <2>4, <2>5, <2>6, InputDecides DEF FrontEndInv
  <1>8. ASSUME NEW f \in FrontEnds, Start(f) PROVE FrontEndInv'
    <2>1. UNCHANGED <<input, settings, todo, made>> /\ phase[f] = "given"
      BY <1>8 DEF Start
    <2>2. /\ phase'[f] = IF Given(f).mode = "simple" THEN "running" ELSE "unsupported"
          /\ run'[f] = Ready(f)
      BY <1>8 DEF Start, FrontEndInv, Types, AtFrontEnd, Ready
    <2>3. \A g \in FrontEnds \ {f} : phase'[g] = phase[g] /\ run'[g] = run[g]
      BY <1>8 DEF Start, FrontEndInv, Types
    <2>4. AtFrontEnd(f)'
      BY <2>1, <2>2, InputDecides DEF FrontEndInv, AtFrontEnd
    <2>5. \A g \in FrontEnds : AtFrontEnd(g)'
      BY <2>1, <2>3, <2>4, Elsewhere DEF FrontEndInv
    <2>6. Types'
      BY <1>8, <2>2 DEF Start, FrontEndInv, Types
    <2> QED BY <2>1, <2>2, <2>3, <2>5, <2>6, InputDecides DEF FrontEndInv
  <1>9. CASE UNCHANGED vars
    <2>1. UNCHANGED <<input, phase, settings, todo, run, made>>
      BY <1>9 DEF vars
    <2>2. \A g \in FrontEnds : AtFrontEnd(g)'
      BY <2>1, Elsewhere DEF FrontEndInv
    <2>3. Types'
      BY <2>1 DEF FrontEndInv, Types
    <2> QED BY <2>1, <2>2, <2>3, InputDecides DEF FrontEndInv
  <1> QED
    BY <1>1, <1>2, <1>3, <1>4, <1>5, <1>6, <1>7, <1>8, <1>9 DEF Next

LEMMA FrontEndInvariant == Spec => []FrontEndInv
  BY FrontEndInit, FrontEndStep, PTL DEF Spec

-----------------------------------------------------------------------------
(* A Python program that reads its Config between any two calls finds the  *)
(* derived minimum fit for its threshold: every setter and both            *)
(* constructors keep them together.                                        *)
THEOREM NeverStaleHolds == Spec => []NeverStale
  <1>1. FrontEndInv => NeverStale
    <2> SUFFICES ASSUME FrontEndInv, phase["python"] # "load"
                 PROVE  settings["python"][Min] = MinimumQuestion(settings["python"][Threshold])
      BY DEF NeverStale, Min, Threshold
    <2>1. CASE phase["python"] = "panic"
      <3>1. Threshold \in Options \ {Min} /\ Min \in Options
        BY OptionsAre DEF Min, Threshold
      <3> QED BY <2>1, <3>1, LoadedIs, CurrentIs DEF FrontEndInv
    <2>2. CASE phase["python"] # "panic"
      BY <2>2, SubmittedIs DEF FrontEndInv
    <2> QED BY <2>1, <2>2
  <1> QED BY <1>1, FrontEndInvariant, PTL

(* The settings that a front end checks. *)
LEMMA FinalIs ==
    ASSUME input \in Inputs, Readable, NEW f \in FrontEnds
    PROVE  /\ IsSettings(Final(f))
           /\ Final(f)["sample_every_m_tokens"] >= 1
           /\ Final(f)[Min] = MinimumQuestion(Final(f)[Threshold])
           /\ \A o \in DOMAIN input.args :
                \/ Final(f)[o] = input.args[o]
                \/ o = "sample_every_m_tokens" /\ input.args[o] = 0
  <1>1. Loaded["sample_every_m_tokens"] \in Nat
    <2>1. Default["sample_every_m_tokens"] = 10
      BY DEF Default
    <2>2. "sample_every_m_tokens" \in Options
      BY OptionsAre
    <2>3. CASE input.file = NoFile
      BY <2>1, <2>3, FileIs
    <2>4. CASE input.file # NoFile
      <3>1. "sample_every_m_tokens" \in DOMAIN input.file =>
              input.file["sample_every_m_tokens"] \in Nat
        BY <2>4, FileIs, InputsAssumption
      <3>2. Loaded["sample_every_m_tokens"]
              = IF "sample_every_m_tokens" \in DOMAIN input.file
                  THEN input.file["sample_every_m_tokens"] ELSE 10
        BY <2>1, <2>2, <2>4, FileIs DEF FromFile, With
      <3> QED BY <3>1, <3>2
    <2> QED BY <2>3, <2>4
  <1>2. DOMAIN input.args \subseteq Options \ {Min}
    BY InputsAssumption DEF Min
  <1>3. "sample_every_m_tokens" \in DOMAIN input.args =>
          input.args["sample_every_m_tokens"] \in Nat
    BY InputsAssumption
  <1>4. /\ Threshold \in Options /\ Min \in Options /\ "sample_every_m_tokens" \in Options
        /\ Threshold # Min /\ Threshold # "sample_every_m_tokens"
        /\ Min # "sample_every_m_tokens"
    BY OptionsAre DEF Min, Threshold
  <1>5. CASE f = "cli"
    <2> DEFINE w == With(Loaded, input.args)
               e == [Sampled(w) EXCEPT !.evals_dir = EvalsDir(Loaded),
                                       !.purify = "purify" \in DOMAIN input.args]
    <2>1. IsSettings(w) /\ \A o \in Options :
            w[o] = IF o \in DOMAIN input.args THEN input.args[o] ELSE Loaded[o]
      BY DEF With, IsSettings
    <2>2. Sampled(w) = [o \in Options |->
             IF o = "sample_every_m_tokens" THEN (IF w[o] < 1 THEN 1 ELSE w[o]) ELSE w[o]]
      BY <2>1, SampledIs
    <2>3. IsSettings(e)
      BY <2>2, OptionsAre DEF IsSettings
    <2>4. \A o \in Options \ {"evals_dir", "purify"} : e[o] = Sampled(w)[o]
      BY <2>2
    <2>5. /\ "evals_dir" \in DOMAIN input.args => e["evals_dir"] = input.args["evals_dir"]
          /\ "purify" \in DOMAIN input.args => e["purify"] = input.args["purify"]
      BY <2>2, OptionsAre, InputsAssumption DEF EvalsDir
    <2>6. Final(f) = [o \in Options |-> IF o = Min THEN MinimumQuestion(e[Threshold]) ELSE e[o]]
      BY <1>5, <2>3, CurrentIs DEF Final, Overridden
    <2> HIDE DEF e, w
    <2>7. e["sample_every_m_tokens"] >= 1
      BY <1>1, <1>3, <1>4, <2>1, <2>2, <2>4
    <2>8. \A o \in DOMAIN input.args :
            e[o] = input.args[o] \/ (o = "sample_every_m_tokens" /\ input.args[o] = 0)
      BY <1>2, <1>3, <2>1, <2>2, <2>4, <2>5
    <2> QED BY <1>2, <1>4, <2>6, <2>7, <2>8 DEF IsSettings
  <1>6. CASE f = "python"
    <2> DEFINE s == Submitted({})
    <2>1. /\ IsSettings(s) /\ s[Min] = MinimumQuestion(s[Threshold])
          /\ \A o \in Options \ {Min} :
                s[o] = IF o \in DOMAIN input.args THEN input.args[o] ELSE Loaded[o]
      BY SubmittedIs
    <2> HIDE DEF s
    <2>2. Current(s) = s
      BY <2>1, CurrentIs DEF IsSettings
    <2>3. Final(f) = [o \in Options |->
             IF o = "sample_every_m_tokens" THEN (IF s[o] < 1 THEN 1 ELSE s[o]) ELSE s[o]]
      BY <1>6, <2>1, <2>2, SampledIs DEF Final, s
    <2>4. s["sample_every_m_tokens"] \in Nat
      BY <1>1, <1>3, <1>4, <2>1
    <2> QED BY <1>2, <1>3, <1>4, <2>1, <2>3, <2>4 DEF IsSettings
  <1> QED BY <1>5, <1>6 DEF FrontEnds

(* Choosing a cleaned directory, and the server's placeholder for its      *)
(* training directory, leave what was submitted alone.                     *)
LEMMA ReadyIs ==
    ASSUME input \in Inputs, NEW f \in FrontEnds, IsSettings(Final(f))
    PROVE  /\ Ready(f)["purify"] => Ready(f)["cleaned_output_dir"] # None
           /\ \A o \in Options \ {"cleaned_output_dir", "training_dir"} :
                Ready(f)[o] = Final(f)[o] /\ Given(f)[o] = Final(f)[o]
           /\ input.command = "detect" => Ready(f)["training_dir"] = Given(f)["training_dir"]
           /\ \A o \in DOMAIN input.args :
                Final(f)[o] = input.args[o] => Ready(f)[o] = input.args[o]
  <1> DEFINE s == Final(f)
  <1>1. /\ "purify" \in Options /\ "cleaned_output_dir" \in Options
        /\ "training_dir" \in Options /\ "cleaned_output_dir" # "training_dir"
    BY OptionsAre
  <1>2. /\ DOMAIN input.args \subseteq Options
        /\ "training_dir" \in DOMAIN input.args => input.args["training_dir"] # ""
        /\ "cleaned_output_dir" \in DOMAIN input.args => input.args["cleaned_output_dir"] # None
    BY InputsAssumption
  <1>3. CASE input.command = "detect"
    <2>1. Given(f) = WithCleanedDir(s) /\ Ready(f) = WithCleanedDir(s)
      BY <1>3 DEF Given, Ready
    <2>2. WithCleanedDir(s) = [o \in Options |->
             IF o = "cleaned_output_dir" /\ s["purify"] /\ s[o] = None
               THEN "temporary-cleaned" ELSE s[o]]
      BY WithCleanedDirIs
    <2> QED BY <1>1, <1>2, <2>1, <2>2, NamesAssumption
  <1>4. CASE input.command # "detect"
    <2> DEFINE p == Placed(s)
    <2>1. p = [o \in Options |-> IF o = "training_dir" /\ s[o] = "" THEN "." ELSE s[o]]
      BY PlacedIs
    <2>2. IsSettings(p)
      BY <2>1 DEF IsSettings
    <2>3. Given(f) = p /\ Ready(f) = WithCleanedDir(p)
      BY <1>4, InputsAssumption DEF Given, Ready
    <2> HIDE DEF p
    <2>4. WithCleanedDir(p) = [o \in Options |->
             IF o = "cleaned_output_dir" /\ p["purify"] /\ p[o] = None
               THEN "temporary-cleaned" ELSE p[o]]
      BY <2>2, WithCleanedDirIs
    <2>5. \A o \in Options \ {"cleaned_output_dir", "training_dir"} :
            Ready(f)[o] = Final(f)[o] /\ Given(f)[o] = Final(f)[o]
      BY <2>1, <2>3, <2>4
    <2>6. Ready(f)["purify"] => Ready(f)["cleaned_output_dir"] # None
      BY <1>1, <2>3, <2>4, NamesAssumption
    <2>7. \A o \in DOMAIN input.args :
             Final(f)[o] = input.args[o] => Ready(f)[o] = input.args[o]
      BY <1>1, <1>2, <2>1, <2>3, <2>4
    <2> QED BY <1>4, <2>5, <2>6, <2>7
  <1> QED BY <1>3, <1>4

(* A run that starts, from either front end, has what detection relies on, *)
(* and the options of its caller are in force (validate_config and the     *)
(* steps before it, in execute_detect, execute_server, run_detection and   *)
(* server).                                                                *)
THEOREM RunnableHolds == Spec => []Runnable
  <1>1. FrontEndInv => Runnable
    <2> SUFFICES ASSUME FrontEndInv, NEW f \in FrontEnds, phase[f] = "running"
                 PROVE  LET r == Ready(f)
                        IN  /\ r["sample_every_m_tokens"] >= 1
                            /\ r[Min] = MinimumQuestion(r[Threshold])
                            /\ HasData(r["evals_dir"])
                            /\ input.command = "detect" => HasData(r["training_dir"])
                            /\ r["purify"] => r["cleaned_output_dir"] # None
                            /\ \A o \in DOMAIN input.args :
                                  \/ r[o] = input.args[o]
                                  \/ o = "sample_every_m_tokens" /\ input.args[o] = 0
      BY DEF Runnable, FrontEndInv, AtFrontEnd, Min, Threshold
    <2>1. input \in Inputs /\ Readable /\ Accepted(f)
      BY DEF FrontEndInv, Types, AtFrontEnd
    <2>2. /\ "sample_every_m_tokens" \in Options \ {"cleaned_output_dir", "training_dir"}
          /\ Min \in Options \ {"cleaned_output_dir", "training_dir"}
          /\ Threshold \in Options \ {"cleaned_output_dir", "training_dir"}
          /\ "evals_dir" \in Options \ {"cleaned_output_dir", "training_dir"}
      BY OptionsAre DEF Min, Threshold
    <2>3. HasData(Given(f)["evals_dir"])
      BY <2>1 DEF Accepted, Valid, ValidServer
    <2>4. input.command = "detect" => HasData(Given(f)["training_dir"])
      BY <2>1 DEF Accepted, Valid
    <2>5. HasData(Ready(f)["evals_dir"])
      BY <2>1, <2>2, <2>3, FinalIs, ReadyIs
    <2>6. input.command = "detect" => HasData(Ready(f)["training_dir"])
      BY <2>1, <2>4, FinalIs, ReadyIs
    <2> QED BY <2>1, <2>2, <2>5, <2>6, FinalIs, ReadyIs
  <1> QED BY <1>1, FrontEndInvariant, PTL

(* Where the two front ends do not part ways they check the same settings. *)
LEMMA SameFinal ==
    ASSUME input \in Inputs, Readable, ~Parted
    PROVE  Final("cli") = Final("python")
  <1> DEFINE w == With(Loaded, input.args)
             e == [Sampled(w) EXCEPT !.evals_dir = EvalsDir(Loaded),
                                     !.purify = "purify" \in DOMAIN input.args]
  <1>1. IsSettings(w) /\ \A o \in Options :
          w[o] = IF o \in DOMAIN input.args THEN input.args[o] ELSE Loaded[o]
    BY DEF With, IsSettings
  <1>2. IsSettings(Sampled(w))
    BY <1>1, SampledIs DEF IsSettings
  <1>3. "evals_dir" \in Options /\ "purify" \in Options
        /\ Threshold \in Options \ {Min, "sample_every_m_tokens"} /\ Min \in Options
        /\ Min # "sample_every_m_tokens"
    BY OptionsAre DEF Min, Threshold
  <1>4. Sampled(w)["evals_dir"] = w["evals_dir"] /\ Sampled(w)["purify"] = w["purify"]
    BY <1>1, <1>3, SampledIs
  <1>5. EvalsDir(Loaded) = w["evals_dir"]
    BY <1>1, <1>3 DEF EvalsDir, Parted
  <1>6. ("purify" \in DOMAIN input.args) = w["purify"]
    <2>1. Default["purify"] = FALSE
      BY DEF Default
    <2>2. CASE "purify" \in DOMAIN input.args
      BY <1>1, <1>3, <2>2, InputsAssumption
    <2>3. CASE "purify" \notin DOMAIN input.args
      <3>1. CASE input.file = NoFile
        <4>1. w["purify"] = FALSE
          BY <1>1, <1>3, <2>1, <2>3, <3>1, FileIs
        <4>2. ("purify" \in DOMAIN input.args) = FALSE
          BY <2>3
        <4> QED BY <4>1, <4>2
      <3>2. CASE input.file # NoFile
        <4>1. Loaded = FromFile /\ ~FromFile["purify"]
          BY <2>3, <3>2, FileIs DEF Parted, Readable
        <4>2. FromFile["purify"] \in BOOLEAN
          <5>1. "purify" \in DOMAIN input.file => input.file["purify"] \in BOOLEAN
            BY <3>2, FileIs, InputsAssumption
          <5> QED BY <1>3, <2>1, <5>1 DEF FromFile, With
        <4> QED BY <1>1, <1>3, <2>3, <4>1, <4>2
      <3> QED BY <3>1, <3>2
    <2> QED BY <2>2, <2>3
  <1>7. e = Sampled(w)
    BY <1>2, <1>4, <1>5, <1>6 DEF IsSettings
  <1>8. Final("cli") = Current(Sampled(w))
    BY <1>7 DEF Final, Overridden
  <1>9. Final("python") = Sampled(Current(Current(w)))
    BY SubmittedAll DEF Final
  <1> HIDE DEF w
  <1>10. Current(Sampled(w)) = Sampled(Current(Current(w)))
    <2>1. IsSettings(Current(w)) /\ IsSettings(Current(Current(w)))
      BY <1>1, CurrentIs DEF IsSettings
    <2>2. Current(Current(w)) = Current(w)
      BY <1>1, <1>3, <2>1, CurrentIs
    <2>3. \A o \in Options : Current(Sampled(w))[o] = Sampled(Current(w))[o]
      BY <1>1, <1>2, <1>3, <2>1, CurrentIs, SampledIs
    <2>4. IsSettings(Current(Sampled(w))) /\ IsSettings(Sampled(Current(w)))
      BY <1>2, <2>1, CurrentIs, SampledIs DEF IsSettings
    <2> QED BY <2>2, <2>3, <2>4 DEF IsSettings
  <1> QED BY <1>8, <1>9, <1>10

(* The command line and the Python bindings, written apart, bring every    *)
(* file and every set of options to the same end, where they do not part   *)
(* ways by design: a user of either can expect the run of the other.       *)
THEOREM SameRunHolds == Spec => []SameRun
  <1>1. FrontEndInv => SameRun
    <2> SUFFICES ASSUME FrontEndInv, Done("cli"), Done("python"), ~Parted
                 PROVE  /\ phase["cli"] = phase["python"] /\ run["cli"] = run["python"]
                        /\ made["cli"] = made["python"]
      BY DEF SameRun
    <2>1. CASE Readable
      <3>1. Final("cli") = Final("python")
        BY <2>1, SameFinal DEF FrontEndInv, Types
      <3>2. Given("cli") = Given("python")
        BY <3>1 DEF Given
      <3>3. /\ Accepted("cli") <=> Accepted("python")
            /\ Directories("cli") = Directories("python")
            /\ Ready("cli") = Ready("python")
        <4>1. Accepted("cli") <=> Accepted("python")
          <5>1. PICK g : g = Given("cli") /\ g = Given("python")
            BY <3>2
          <5>2. ASSUME NEW f, g = Given(f)
                PROVE  Accepted(f) <=> IF input.command = "detect"
                                         THEN g.training_dir # "" /\ Valid(g)
                                         ELSE ValidServer(g)
            BY <5>2, Zenon DEF Accepted
          <5> QED BY <5>1, <5>2
        <4>2. Directories("cli") = Directories("python") /\ Ready("cli") = Ready("python")
          BY <3>2 DEF Directories, Ready
        <4> QED BY <4>1, <4>2
      <3> QED BY <2>1, <3>2, <3>3 DEF FrontEndInv, AtFrontEnd, FrontEnds, Done
    <2>2. CASE ~Readable
      BY <2>2 DEF FrontEndInv, AtFrontEnd, FrontEnds, Done
    <2> QED BY <2>1, <2>2
  <1> QED BY <1>1, FrontEndInvariant, PTL

=============================================================================
