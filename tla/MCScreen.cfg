SPECIFICATION Spec
CONSTANTS
    MaxWaiting = 1
    Texts = {x, y}
    Silence = Silence
    Ids = {a, b}
    ToastTime = 2
    LiveTime = 3
    Heights = {25, 50}
    Peek = 16
    Places = {0, 5, 11, 20, 30}
    Fingers = {f, g}
    NoOffset = NoOffset
INVARIANTS TopmostOnly EscapeActs NoticesEnd SheetSettles
CONSTRAINT Few
