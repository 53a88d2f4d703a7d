SPECIFICATION ExplainSpec
CONSTANTS
    None = None
    IdBefore <- MCIdBefore
    TextBefore <- MCTextBefore
    Files = {1, 2, 3, 4, 5, 6, 7, 8, 9, 10, 11, 12}
    PathOf <- MCPathOf
    LanguageOf <- MCLanguageOf
    Versions <- MCVersions
    Repos <- MCRepos
    Cap = 2
    MaxCommits = 1
    Hidden = {"_hide"}
    TestFiles = {}
INVARIANT
    HighMeansNoHints
