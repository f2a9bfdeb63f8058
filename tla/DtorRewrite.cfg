SPECIFICATION Spec
CONSTANTS
    Classes = {"S", "T"}
    ClassKinds <- MCClassKinds
    Layouts <- MCLayouts
    CharBits = 8
    Preludes = {"none", "hook_only", "whole"}
INVARIANTS DeferredInstrumented OthersUntouched TypeDataDecodes
