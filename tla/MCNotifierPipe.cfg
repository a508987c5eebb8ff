SPECIFICATION FairSpec
CONSTANTS
    warning = warning
    ping = ping
    Calls = {warning, ping}
    Messages = {warning}
    Notifiers = {orphan, started}
    None = None
    ChannelFaults = {"service", "die", "signal", "open", "toast"}
INVARIANT TypeOK
PROPERTIES DeliversInOrder CallReturns ListensAgain StopEndsWithTheConnection
