SPECIFICATION Spec
CONSTANTS
    prose = prose
    labels = labels
    chant = chant
    legal = legal
    source = source
    hub = hub
    story = story
    en = en
    de = de
    Kind <- MCKind
    LineRunes = 40
    Measure <- MCMeasure
    Cores = 4
    Target = {hub, story}
    Language = {en, de}
    English = en
    InitialSettings <- MCSettings
    Flags <- MCFlags
    Offered <- MCOffered
INVARIANTS SettingsAreSound LinksKept RecordsAreContent
