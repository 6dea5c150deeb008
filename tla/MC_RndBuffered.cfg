\* kr_rnd_buffered with a 8-byte buffer: sizes 0, below, at and above it.
CONSTANTS
    BufSize = 8
    Sizes = {0, 1, 3, 7, 8, 9}
    MaxGen = 3
SPECIFICATION Spec
INVARIANT TypeOK OnlyGeneratedBytes
PROPERTY NoByteReuse
PROPERTY RefinesRandomStream
