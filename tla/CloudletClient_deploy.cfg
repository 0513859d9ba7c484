\* Three values for each option.
CONSTANTS
    e1 = e1
    Values = {0, 1, 5}
    Envs = {e1}
SPECIFICATION Spec
INVARIANT
    OptionsHonoured
