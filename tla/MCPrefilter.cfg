SPECIFICATION Spec
CONSTANTS
    Patterns <- MCPatterns
    Rulesets <- MCRulesets
    Texts <- MCTexts
    NoText = NoText
    NoKeyword = NoKeyword
    None = NoKeyword
    KeywordOf <- MCKeywordOf
    Compiles <- MCCompiles
    IsUtf8 <- MCIsUtf8
    Occurs <- MCOccurs
    Matches <- MCMatches
    MinLength = 2
    Static <- MCStatic
INVARIANTS
    IInv
    RuleAlone
    PrefixedRulesFire
