CONSTANTS
    Absent = Absent
    BadText = BadText
    AllKeys = AllKeys
    EmptyInput = EmptyInput
    FormInputs <- MCFormInputs
    Presets <- MCPresets
SPECIFICATION Spec
INVARIANT TypeOK
INVARIANT CommandMeansConfig
