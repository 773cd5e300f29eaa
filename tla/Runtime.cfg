CONSTANTS
    c1 = c1
    c2 = c2
    Callers = {c1, c2}
    e1 = e1
    e2 = e2
    e3 = e3
    Executions = {e1, e2, e3}
    Names = {"a", "b", "j", "z", "inline", "thread", "subprocess"}
    Registered <- MCRegistered
    Installed <- MCInstalled
    Importable <- MCImportable
    Hooks <- MCHooks
    Ambient = "flow"
    Lags = {0, 3}
    Deployments <- MCDeployments
    MaxCloses = 2
SYMMETRY Symmetry
SPECIFICATION Spec
INVARIANTS NoInstanceIsLost IndexIsTrue IntentIsCarried SubmissionsAreBracketed
