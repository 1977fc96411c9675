SPECIFICATION EnvelopeSpec
CONSTANTS
    Bodies <- mcBodies
    Frames <- mcFrames
    Confs <- mcConfs
    Lists <- mcLists
    FrameLists <- mcFrameLists
    Unbounds <- mcUnbounds
    Rewrites <- mcRewrites
    JobIDs <- mcJobIDs
    MaxEdits = 1
INVARIANTS
    PayloadStaysSealed
    RebuiltAsMeant
    AnswerUnreadable
    ReadAsSealed
    
