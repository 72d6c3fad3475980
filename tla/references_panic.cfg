SPECIFICATION ParsingSpec
CONSTANTS
    LangFamily = {"Rust", "CLike", "Go", "Python", "JsTs", "JavaCSharp", "Ruby"}
    Sources <- MCSources
    ByteWords = {"a", "x", "s", "f", "n", "u"}
    Inputs <- MCInputs
    None = None
    Panic = Panic
INVARIANT ReferencesDoNotPanic
