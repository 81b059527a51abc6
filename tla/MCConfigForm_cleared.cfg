CONSTANTS
    Absent = Absent
    BadText = BadText
    AllKeys = AllKeys
    EmptyInput = EmptyInput
    FormInputs <- MCFormInputsCleared
    Presets <- MCPresets
SPECIFICATION Spec
INVARIANT CommandMeansConfig
