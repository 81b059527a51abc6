------------------------------ MODULE ConfigForm ------------------------------
(***************************************************************************)
(* The config being edited in the popup (src/popup/popup.tsx) through      *)
(* ConfigForm (src/components/ConfigForm.tsx): field inputs, Reset and     *)
(* loading a preset.  Running it is the service worker's runBenchmark,     *)
(* which validates the config and builds the memtier command line with     *)
(* configToArgs; the property below states what that command line means.  *)
(***************************************************************************)
EXTENDS ConfigCodec

CONSTANTS
    FormInputs, \* FormInputs[f]: the values field f's input can deliver
    EmptyInput, \* the empty text of a cleared number input
    Presets     \* configs saved as presets or imported from a backup

ASSUME FormInputsAssumption == DOMAIN FormInputs \subseteq Fields

VARIABLE config \* the popup's config state (also saved with saveCurrentConfig)

\* The kind of a field, as declared in MemtierConfig.
KindOf(f) == IF f = "commands" THEN "commands" ELSE RuleOf(f).kind

ValueOK(kind, v) ==
    CASE kind = "bool"     -> v \in BOOLEAN
      [] kind = "num"      -> v \in Int \/ v \in {Absent, AllKeys}
      [] kind = "text"     -> v = Absent \/ v \in STRING
      [] kind = "ratio"    -> /\ v.set \in Nat \cup {BadText}
                              /\ v.get \in Nat \cup {BadText}
      [] kind = "commands" -> v \in Seq([command : STRING, ratio : Int,
                                         keyPattern : {"G", "R", "S", "P"}])

TypeOK ==
    /\ DOMAIN config = Fields
    /\ \A f \in Fields : ValueOK(KindOf(f), config[f])

Init == config = mergeWithDefaults(<< >>)

\* Mutant: the value of a number input stored as typed, '' included.
NumberInputRaw(raw) == raw

\* A number input: e.target.value === '' ? 0 : Number(e.target.value).
NumberInput(raw) == IF raw = EmptyInput THEN 0 ELSE raw

(***************************************************************************)
(* handleInputChange via renderInput: onChange({ ...config, [field]:       *)
(* value }), which the popup's handleConfigChange stores.                  *)
(***************************************************************************)
InputChange(f, raw) ==
    config' = [config EXCEPT ![f] = IF KindOf(f) = "num" THEN NumberInput(raw)
                                    ELSE raw]

\* handleReset: onChange(mergeWithDefaults({})).
Reset == config' = mergeWithDefaults(<< >>)

\* handleLoadPreset: setConfig(preset.config).
LoadPreset(p) == config' = p

Next ==
    \/ \E f \in DOMAIN FormInputs : \E raw \in FormInputs[f] : InputChange(f, raw)
    \/ Reset
    \/ \E p \in Presets : LoadPreset(p)

Spec == Init /\ [][Next]_config

(***************************************************************************)
(* Running the config the form shows (the Run button is enabled only when  *)
(* validateConfig finds nothing, and runBenchmark checks again) makes      *)
(* memtier run exactly that config: configToArgs leaves out only options   *)
(* at memtier's default and passes every other one.                        *)
(***************************************************************************)
CommandMeansConfig ==
    validateConfig(config) = << >> => ArgsMean(configToArgs(config), config)
====
