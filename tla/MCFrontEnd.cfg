CONSTANTS
    Idents = {"x", "y", "m", "lib", "K", "N", "M", "_", "from", "bits", "reads", "writes"}
    Uppers = {"K", "N", "M"}
    Ints = {"1"}
    Strings = {"text"}
    Primitives = {"f64"}
    Annots = {"@a", "@b"}
    Blank = {" "}
    NewLine <- MCNewLine
    Tab <- MCTab
    Digits = {"0"}
    Letters = {"a"}
    Alphabet <- MCAlphabet
    TextLength = 4
    CommentLength = 7
SPECIFICATION Spec
CHECK_DEADLOCK FALSE
INVARIANTS
    LongestMatch
    ReadBack
    SameMeaning
