SPECIFICATION Spec
CONSTANTS
    ram = ram
    rom = rom
    line = line
    lines = lines
    quote = quote
    Pages = {ram, rom}
    Logicals <- MCLogicals
    Bounds <- MCBounds
    Texts = {line, lines, quote}
    Multiline = {lines}
    Quoted = {quote}
    Pointers = {p1, p2}
    Null = Null
    Invalid = Invalid
    Files <- MCFiles
    Increment = 2
CHECK_DEADLOCK FALSE
PROPERTY SaveReturns
