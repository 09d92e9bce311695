\* One socket with room for two frames, a request handler and the Redis subscriber.
CONSTANTS
    Client = {c1}
    UserOf <- OneUserEach
    TenantOf <- OneTenant
    Channel = {"tenant"}
    Api = {api}
    Redis = redis
    Buffer = 2
    None = None
SPECIFICATION HubFairSpec
CHECK_DEADLOCK FALSE
PROPERTIES
    SocketsAreSafe
    HubServes
