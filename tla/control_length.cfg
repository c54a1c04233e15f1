SPECIFICATION Spec
CONSTANTS
    CommandLines <- ElevenOnly
    Lines <- Prompted
    MaxLines = 2
    MaxRandom = 2
    None = None
    Text = Text
    ExitLine = ExitLine
    Eof = Eof
    Window = 160
    RequestRoom = 1
    MaxTyped = 1
    Cuts <- AroundLength
    Strays <- SomeStrays
    Half = 8
    FloatBits = 4
    Fine = 14
    Digits = 4
    Wide = 30
    UdpRoom = 2
INVARIANT
    EveryMessageIntact
CHECK_DEADLOCK FALSE
