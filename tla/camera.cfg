\* Two readers, and format ioctls at any time.
SPECIFICATION FairCameraSpec
CONSTANT Readers = {r1, r2}
INVARIANTS  EachReadItsOwnFrame FrameFits
PROPERTY SomeReaderServed
